---- MODULE Spec2Model ----
(***************************************************************************)
(* A model of the fp-eslib containers and composition drivers:             *)
(*   Either, its iterator and methods   (Either.ts)                        *)
(*   evalIteration / asyncEvalIteration (Either.ts)                        *)
(*   pipeEither / asyncPipeEither       (pipes/PipeEither.ts)              *)
(*   Option, Some, None, Maybe          (Option.ts)                        *)
(*   Try, TryAsync and the Try methods  (Try.ts)                           *)
(*   match, ifElseChain, matchType      (Matcher.ts)                       *)
(*   extractLazyArg                     (Types.ts)                         *)
(*                                                                         *)
(* One behaviour exercises one operation, selected by `op` in Init.        *)
(* JavaScript values are records [cls, id, value]: `cls` is the class of   *)
(* the object, `id` its identity (allocation number, 0 for values that     *)
(* are not containers) and `value` the payload, an atom (a string).        *)
(* An operation on a container is recorded in `outs` (method, receiver,    *)
(* arguments, outcome) with the invocations of its callbacks in `fcalls`.  *)
(***************************************************************************)
EXTENDS Naturals, Sequences, FiniteSets, TLC

\* ---------------------------------------------------------------- bounds
\* longest block / pipeline that is explored
MaxSteps == 3
\* number of next() calls made on a stand-alone iterator
MaxNext == 3
\* number of operations applied in a row to a container
MaxOps == 3
\* number of cases handed to a matcher
MaxCases == 3

\* ---------------------------------------------------------------- values
Undefined == "undefined"

Null == "null"

\* the values handed to the containers: a string, a falsy number, null and
\* undefined
Atoms == {"a", "0", Null, Undefined}

\* val === null || val === undefined
isNullish(val) == val \in {Null, Undefined}

\* payloads a Right step may carry (undefined included: Right() is legal)
RightPayloads == {"a", Undefined}

\* the payload of the Left produced by the k-th step
LeftPayload(k) == "left" \o ToString(k)

\* the raw Error object thrown by the k-th step when it is buggy
ErrorObject(k) == "Error" \o ToString(k)

\* a value that is not an Either (an Error, undefined, a string ...)
Raw(x) == [cls |-> "raw", id |-> 0, value |-> x]

\* Left(val): new EitherLeft(val); `id` is the identity of the new object
Left(id, val) == [cls |-> "EitherLeft", id |-> id, value |-> val]

\* Right(val): new EitherRight(val)
Right(id, val) == [cls |-> "EitherRight", id |-> id, value |-> val]

\* the isLeft / isRight fields; absent (falsy) on values that are no Either
isLeft(e) == e.cls = "EitherLeft"
isRight(e) == e.cls = "EitherRight"
IsEither(e) == isLeft(e) \/ isRight(e)

\* None: OptionNone.instance, the one empty Option
None == [cls |-> "OptionNone", id |-> 0, value |-> Undefined]

\* new OptionSome(value)
OptionSome(id, value) == [cls |-> "OptionSome", id |-> id, value |-> value]

isEmpty(o) == o.cls = "OptionNone"

\* ------------------------------------------------------- Either iterator
\* Either[Symbol.iterator](): a closure over the instance and isDone
SymbolIterator(instance) == [instance |-> instance, isDone |-> FALSE]

\* faulty variant of next: a Left is yielded like a Right instead of being thrown
nextYieldsLeft(it) ==
  IF ~it.isDone
    THEN [thrown |-> FALSE, done |-> FALSE, value |-> it.instance.value,
          ex |-> Raw(Undefined), it |-> [it EXCEPT !.isDone = TRUE]]
    ELSE [thrown |-> FALSE, done |-> TRUE, value |-> it.instance.value,
          ex |-> Raw(Undefined), it |-> it]

\* faulty variant of next: isDone is never set, the payload is yielded every time
nextNeverDone(it) ==
  IF ~isRight(it.instance)
    THEN [thrown |-> TRUE, done |-> FALSE, value |-> Undefined,
          ex |-> it.instance, it |-> it]
    ELSE [thrown |-> FALSE, done |-> FALSE, value |-> it.instance.value,
          ex |-> Raw(Undefined), it |-> it]

\* iterator.next(): the outcome (thrown / done / value) and the iterator
\* after the call
next(it) ==
  IF ~isRight(it.instance)
    THEN [thrown |-> TRUE, done |-> FALSE, value |-> Undefined,
          ex |-> it.instance, it |-> it]
    ELSE IF ~it.isDone
      THEN [thrown |-> FALSE, done |-> FALSE, value |-> it.instance.value,
            ex |-> Raw(Undefined), it |-> [it EXCEPT !.isDone = TRUE]]
      ELSE [thrown |-> FALSE, done |-> TRUE, value |-> it.instance.value,
            ex |-> Raw(Undefined), it |-> it]

\* ------------------------------------------------------------ the blocks
\* One step of a composition block: `for (const x of <expr>)`.  <expr>
\* evaluates to a Right, to a Left, or throws a raw Error (a buggy step);
\* in an asynchronous block it may be `await`ed.
SyncStepOf(k) ==
  [kind : {"Right"}, payload : RightPayloads, awaited : {FALSE}]
    \cup {[kind |-> "Left", payload |-> LeftPayload(k), awaited |-> FALSE],
          [kind |-> "Throw", payload |-> ErrorObject(k), awaited |-> FALSE]}

RECURSIVE SeqsOf(_, _)
\* the sequences of length n whose k-th element is drawn from S[k]
SeqsOf(S, n) ==
  IF n = 0 THEN {<<>>}
  ELSE {Append(s, x) : s \in SeqsOf(S, n - 1), x \in S[n]}

SyncBlocks ==
  UNION {SeqsOf([k \in 1..MaxSteps |-> SyncStepOf(k)], n) : n \in 0..MaxSteps}

\* a step of an asynchronous block: `for (const x of await f())` or, as in
\* a synchronous block, `for (const x of f())`
AsyncStepOf(k) ==
  SyncStepOf(k) \cup {[s EXCEPT !.awaited = TRUE] : s \in SyncStepOf(k)}

AsyncBlocks ==
  UNION {SeqsOf([k \in 1..MaxSteps |-> AsyncStepOf(k)], n) : n \in 0..MaxSteps}

RECURSIVE Join(_)
\* the object a block builds from the payloads it bound: {host, token, ...}
Join(bound) ==
  IF bound = <<>> THEN "{}" ELSE Join(SubSeq(bound, 1, Len(bound) - 1)) \o "," \o bound[Len(bound)]

NoValue == Raw(Undefined)
NoResult == [kind |-> "none", val |-> NoValue]
NoPromise == [state |-> "none", val |-> NoValue]

\* outcomes of a call: a returned value or a thrown one
Ret(v) == [kind |-> "return", val |-> v]
Thr(v) == [kind |-> "throw", val |-> v]

\* the record of an operation: method, receiver, arguments and outcome
Call(m, recv, args, res) == [m |-> m, recv |-> recv, args |-> args, res |-> res]
NoCall == Call("none", NoValue, <<>>, NoResult)

\* the invocation of a callback with a plain value as argument
Invoked(fn, arg) == [fn |-> fn, arg |-> Raw(arg)]

\* the invocation of a callback with a container as argument
InvokedWith(fn, container) == [fn |-> fn, arg |-> container]

\* a step handed to a pipeline: a function of the values so far that
\* returns a Right or a Left, or throws; a step of asyncPipeEither may
\* return a Promise of its Either instead (a rejected one when it fails)
PipeStepOf(k) ==
  [kind : {"Right"}, payload : RightPayloads, promise : BOOLEAN]
    \cup [kind : {"Left"}, payload : {LeftPayload(k)}, promise : BOOLEAN]
    \cup [kind : {"Throw"}, payload : {ErrorObject(k)}, promise : BOOLEAN]

PipeItems ==
  UNION {SeqsOf([k \in 1..MaxSteps |-> PipeStepOf(k)], n) : n \in 0..MaxSteps}

\* the locals of a pipeline call before its first iteration
PipeLocals ==
  [pc |-> "idle", index |-> 0, current |-> NoValue, values |-> <<>>,
   foundError |-> FALSE]

\* the error raised by calling items[index] when it is undefined
TypeError == Raw("TypeError")

PEvent(ev, k, args, val) == [ev |-> ev, k |-> k, args |-> args, val |-> val]

VARIABLES
  op,       \* the operation this behaviour exercises
  nextId,   \* identity of the next object allocated
  block,    \* the steps of the composition block, in written order
  returns,  \* whether the innermost loop body has a return statement
  pc,       \* position of the call
  idx,      \* the step (for-of loop) the block is at
  its,      \* the iterators of the for-of loops entered so far
  bound,    \* the payloads bound by the loops entered so far
  signal,   \* outcome of the block: returned value or thrown value
  result,   \* outcome of the driver call seen by its caller
  promise,  \* the promise the asynchronous block is suspended on
  log,      \* the calls made so far, in order
  items,    \* the steps handed to pipeEither / asyncPipeEither
  pipe,     \* pipeEither: position and the locals index, current, values,
            \* foundError
  pipeResult,   \* outcome of the pipeEither call seen by its caller
  pipeLog,      \* the step calls pipeEither made, with arguments and results
  apipe,        \* asyncPipeEither: position and locals
  apipeResult,  \* how the promise of asyncPipeEither was settled
  apipeLog,     \* the step calls asyncPipeEither made
  inflight,     \* steps whose promise is still pending
  settled,      \* the settled promises of steps, by step
  input,        \* the arguments of the container operation exercised
  subject,      \* the container the operation is applied to or has built
  outs,         \* the last operation: method, receiver, arguments, outcome
  fcalls,       \* the invocations of the callbacks during the last call
  nops          \* the number of container operations applied so far

evalVars == <<block, returns, pc, idx, its, bound, signal, result, promise, log>>

pipeVars == <<items, pipe, pipeResult, pipeLog, apipe, apipeResult, apipeLog,
              inflight, settled>>

methodVars == <<input, subject, outs, fcalls, nops>>

vars == <<op, nextId, evalVars, pipeVars, methodVars>>

Event(ev, k, val) == [ev |-> ev, k |-> k, val |-> val]

\* ------------------------------------------------------------------ Init
InitNoPipe ==
  /\ items = <<>>

InitNoMethod ==
  /\ input = <<>>
  /\ subject = NoResult

InitNoEval ==
  /\ block = <<>>
  /\ returns = FALSE
  /\ its = <<>>
  /\ nextId = 1

InitPipe ==
  /\ op = "pipe"
  /\ InitNoMethod
  /\ items \in PipeItems
  /\ InitNoEval

InitIterator ==
  /\ op = "iterator"
  /\ InitNoPipe
  /\ InitNoMethod
  /\ block = <<>>
  /\ returns = FALSE
  /\ \E v \in RightPayloads \cup {LeftPayload(1)} : \E l \in BOOLEAN :
       its = <<SymbolIterator(IF l THEN Left(1, v) ELSE Right(1, v))>>
  /\ nextId = 2

InitEvalIteration ==
  /\ op = "evalIteration"
  /\ InitNoPipe
  /\ InitNoMethod
  /\ block \in SyncBlocks
  /\ returns \in BOOLEAN
  /\ its = <<>>
  /\ nextId = 1

InitAsyncEvalIteration ==
  /\ op = "asyncEvalIteration"
  /\ InitNoPipe
  /\ InitNoMethod
  /\ block \in AsyncBlocks
  /\ returns \in BOOLEAN
  /\ its = <<>>
  /\ nextId = 1

\* a producer handed to Try: it returns a value or throws an Error
TryProducers ==
  [kind : {"return"}, val : Atoms] \cup [kind : {"throw"}, val : {"Error:failed"}]

\* a producer handed to TryAsync: it throws at once, or returns a promise
\* that the host resolves or rejects
TryAsyncProducers ==
  [kind : {"resolve"}, val : Atoms]
    \cup [kind : {"throw", "reject"}, val : {"Error:failed"}]

\* the values handed to Maybe: the falsy false and '' come in addition
MaybeValues == Atoms \cup {"false", ""}

\* a caller builds an Option and applies operations to it
InitOption ==
  /\ op = "Option"
  /\ InitNoPipe
  /\ InitNoEval
  /\ InitNoMethod

\* a caller builds an Either and applies operations to it
InitEither ==
  /\ op = "Either"
  /\ InitNoPipe
  /\ InitNoEval
  /\ InitNoMethod

\* a caller evaluates one matcher expression
InitMatcher ==
  /\ op = "Matcher"
  /\ InitNoPipe
  /\ InitNoEval
  /\ InitNoMethod

\* what the Option handed to later wraps: nothing (None), a value with
\* neither subscribe nor then, a promise that the host resolves or rejects,
\* or an observable that delivers values and may fail
LaterPayloads ==
  [kind : {"empty", "plain", "observable"}, settle : {"none"}, val : {"a"}]
    \cup [kind : {"promise"}, settle : {"resolve"}, val : Atoms]
    \cup [kind : {"promise"}, settle : {"reject"}, val : {"Error:rejection"}]

\* a caller holds Maybe(item) and calls later(fn) on it
InitLater ==
  /\ op = "later"
  /\ InitNoPipe
  /\ InitNoEval
  /\ input \in LaterPayloads
  /\ subject = IF input.kind = "empty" THEN Ret(None)
               ELSE Ret(OptionSome(0, input.kind))

InitTry ==
  /\ op = "Try"
  /\ InitNoPipe
  /\ InitNoEval
  /\ subject = NoResult
  /\ \E r \in TryProducers : input = [r |-> r]

InitTryAsync ==
  /\ op = "TryAsync"
  /\ InitNoPipe
  /\ InitNoEval
  /\ subject = NoResult
  /\ \E r \in TryAsyncProducers : input = [r |-> r]

Init ==
  /\ \/ InitIterator
     \/ InitEvalIteration
     \/ InitAsyncEvalIteration
     \/ InitPipe
     \/ InitTry
     \/ InitOption
     \/ InitEither
     \/ InitMatcher
     \/ InitLater
     \/ InitTryAsync
  /\ outs = NoCall
  /\ fcalls = <<>>
  /\ nops = 0
  /\ pc = "idle"
  /\ idx = 0
  /\ bound = <<>>
  /\ signal = NoResult
  /\ result = NoResult
  /\ promise = IF op = "later" /\ input.kind = "promise"
                 THEN [state |-> "pending", val |-> NoValue]
                 ELSE NoPromise
  /\ log = <<>>
  /\ pipe = PipeLocals
  /\ pipeResult = NoResult
  /\ pipeLog = <<>>
  /\ apipe = PipeLocals
  /\ apipeResult = NoResult
  /\ apipeLog = <<>>
  /\ inflight = {}
  /\ settled = <<>>

\* --------------------------------------------------- stand-alone iterator
\* a caller drives one iterator by hand: it.next(), it.next(), ...
IteratorNext ==
  /\ op = "iterator"
  /\ Len(log) < MaxNext
  /\ LET r == next(its[1]) IN
       /\ its' = <<r.it>>
       /\ log' = Append(log, Event(IF r.thrown THEN "throw"
                                   ELSE IF r.done THEN "done" ELSE "yield",
                                   1, IF r.thrown THEN r.ex ELSE Raw(r.value)))
  /\ UNCHANGED <<methodVars, pipeVars, op, nextId, block, returns, pc, idx, bound, signal, result,
                 promise>>

\* ---------------------------------------------------------- evalIteration
\* evalIteration(cb): enter the try block and call cb
EvalCall ==
  /\ op = "evalIteration"
  /\ pc = "idle"
  /\ pc' = "block"
  /\ idx' = 1
  /\ UNCHANGED <<methodVars, pipeVars, op, nextId, block, returns, its, bound, signal, result,
                 promise, log>>

\* `for (const x of c)` once c is at hand: obtain the iterator, call next()
EnterLoop(c, lg) ==
  LET r == next(SymbolIterator(c)) IN
    IF r.thrown
      THEN /\ signal' = [kind |-> "throw", val |-> r.ex]
           /\ pc' = "exit"
           /\ log' = Append(lg, Event("throw", idx, r.ex))
           /\ UNCHANGED <<its, bound, idx>>
      ELSE IF r.done
        THEN /\ pc' = "unwind"
             /\ idx' = idx - 1
             /\ log' = Append(lg, Event("done", idx, Raw(r.value)))
             /\ UNCHANGED <<its, bound, signal>>
        ELSE /\ its' = Append(its, r.it)
             /\ bound' = Append(bound, r.value)
             /\ idx' = idx + 1
             /\ pc' = "block"
             /\ log' = Append(lg, Event("yield", idx, Raw(r.value)))
             /\ UNCHANGED signal

\* a synchronous step of the block: evaluate the iterated expression, then
\* enter its loop
BlockStep ==
  /\ pc = "block"
  /\ idx <= Len(block)
  /\ ~block[idx].awaited
  /\ LET s == block[idx]
         lg == Append(log, Event("eval", idx, Raw(s.payload))) IN
       IF s.kind = "Throw"
         THEN /\ signal' = [kind |-> "throw", val |-> Raw(s.payload)]
              /\ pc' = "exit"
              /\ log' = lg
              /\ UNCHANGED <<nextId, its, bound, idx>>
         ELSE /\ nextId' = nextId + 1
              /\ EnterLoop(IF s.kind = "Left" THEN Left(nextId, s.payload)
                           ELSE Right(nextId, s.payload), lg)
  /\ UNCHANGED <<methodVars, pipeVars, op, block, returns, result, promise>>

\* the body of the innermost loop: `return {host, token, provider}`, or
\* nothing, after which the loops are left one by one
BlockBody ==
  /\ pc = "block"
  /\ idx = Len(block) + 1
  /\ IF returns
       THEN /\ signal' = [kind |-> "return", val |-> Raw(Join(bound))]
            /\ pc' = "exit"
            /\ UNCHANGED idx
       ELSE /\ pc' = "unwind"
            /\ idx' = Len(block)
            /\ UNCHANGED signal
  /\ log' = Append(log, Event("body", idx, Raw(Join(bound))))
  /\ UNCHANGED <<methodVars, pipeVars, op, nextId, block, returns, its, bound, result, promise>>

\* the end of a loop body: for-of calls next() again; done leaves the loop,
\* a further value runs the body again; past the outermost loop the block
\* returns undefined
BlockUnwind ==
  /\ pc = "unwind"
  /\ IF idx = 0
       THEN /\ signal' = [kind |-> "return", val |-> Raw(Undefined)]
            /\ pc' = "exit"
            /\ UNCHANGED <<idx, its, log>>
       ELSE LET r == next(its[idx]) IN
              /\ its' = [its EXCEPT ![idx] = r.it]
              /\ log' = Append(log, Event(IF r.done THEN "done" ELSE "yield",
                                          idx, Raw(r.value)))
              /\ IF r.done
                   THEN idx' = idx - 1 /\ UNCHANGED pc
                   ELSE idx' = Len(block) + 1 /\ pc' = "block"
              /\ UNCHANGED signal
  /\ UNCHANGED <<methodVars, pipeVars, op, nextId, block, returns, bound, result, promise>>

\* faulty variant of evalIteration: the caught Left is rebuilt instead of returned
evalIterationRewraps(out, id) ==
  IF out.kind = "return"
    THEN [kind |-> "return", val |-> Right(id, out.val.value)]
    ELSE [kind |-> "return", val |-> Left(id, out.val.value)]

\* faulty variant of evalIteration: only Either signals are caught
evalIterationRethrows(out, id) ==
  IF out.kind = "return"
    THEN [kind |-> "return", val |-> Right(id, out.val.value)]
    ELSE IF IsEither(out.val) THEN [kind |-> "return", val |-> out.val]
         ELSE [kind |-> "throw", val |-> out.val]

\* faulty variant of evalIteration: the value of the block is returned unwrapped
evalIterationUnwrapped(out, id) ==
  [kind |-> "return", val |-> out.val]

\* evalIteration(cb), given the outcome of cb():
\*   try { return Right(cb()); } catch (ex) { return ex; }
evalIteration(out, id) ==
  IF out.kind = "return"
    THEN [kind |-> "return", val |-> Right(id, out.val.value)]
    ELSE [kind |-> "return", val |-> out.val]

\* the block has returned or thrown: evalIteration hands its result back
EvalReturn ==
  /\ op = "evalIteration"
  /\ pc = "exit"
  /\ result' = evalIteration(signal, nextId)
  /\ nextId' = nextId + 1
  /\ pc' = "done"
  /\ UNCHANGED <<methodVars, pipeVars, op, block, returns, idx, its, bound, signal, promise, log>>

\* ----------------------------------------------------- asyncEvalIteration
\* asyncEvalIteration(cb): call the asynchronous block; it runs to its
\* first await
AsyncEvalCall ==
  /\ op = "asyncEvalIteration"
  /\ pc = "idle"
  /\ pc' = "block"
  /\ idx' = 1
  /\ UNCHANGED <<methodVars, pipeVars, op, nextId, block, returns, its, bound, signal, result,
                 promise, log>>

\* `await f()`: the asynchronous step is started and the block suspends
\* on the promise f() returned
AsyncStepStart ==
  /\ pc = "block"
  /\ idx <= Len(block)
  /\ block[idx].awaited
  /\ promise' = [state |-> "pending", val |-> NoValue]
  /\ pc' = "await"
  /\ log' = Append(log, Event("start", idx, Raw(block[idx].payload)))
  /\ UNCHANGED <<methodVars, pipeVars, op, nextId, block, returns, idx, its, bound, signal, result>>

\* the host scheduler settles the pending promise: the step has produced
\* its container, or has failed with a raw error
HostSettle ==
  /\ pc = "await"
  /\ promise.state = "pending"
  /\ LET s == block[idx] IN
       IF s.kind = "Throw"
         THEN /\ promise' = [state |-> "rejected", val |-> Raw(s.payload)]
              /\ UNCHANGED nextId
         ELSE /\ promise' = [state |-> "fulfilled",
                             val |-> IF s.kind = "Left"
                                       THEN Left(nextId, s.payload)
                                       ELSE Right(nextId, s.payload)]
              /\ nextId' = nextId + 1
  /\ log' = Append(log, Event("settle", idx, promise'.val))
  /\ UNCHANGED <<methodVars, pipeVars, op, block, returns, pc, idx, its, bound, signal, result>>

\* faulty variant of AsyncStepResume: the rejection is swallowed and the block goes
\* on with undefined
AsyncStepResumeSwallows ==
  /\ pc = "await"
  /\ promise.state \in {"fulfilled", "rejected"}
  /\ promise' = NoPromise
  /\ IF promise.state = "rejected"
       THEN /\ bound' = Append(bound, Undefined)
            /\ its' = Append(its, SymbolIterator(Right(0, Undefined)))
            /\ idx' = idx + 1
            /\ pc' = "block"
            /\ UNCHANGED <<signal, log>>
       ELSE EnterLoop(promise.val, log)
  /\ UNCHANGED <<methodVars, pipeVars, op, nextId, block, returns, result>>

\* the block resumes after the await: a rejection is thrown inside the
\* block, a container is iterated
AsyncStepResume ==
  /\ pc = "await"
  /\ promise.state \in {"fulfilled", "rejected"}
  /\ promise' = NoPromise
  /\ IF promise.state = "rejected"
       THEN /\ signal' = [kind |-> "throw", val |-> promise.val]
            /\ pc' = "exit"
            /\ UNCHANGED <<its, bound, idx, log>>
       ELSE EnterLoop(promise.val, log)
  /\ UNCHANGED <<methodVars, pipeVars, op, nextId, block, returns, result>>

\* asyncEvalIteration(cb), given the outcome of the awaited block: the
\* contract of evalIteration, delivered through a promise
asyncEvalIteration(out, id) ==
  IF out.kind = "return"
    THEN [kind |-> "resolve", val |-> Right(id, out.val.value)]
    ELSE IF IsEither(out.val)
      THEN [kind |-> "resolve", val |-> out.val]
      ELSE [kind |-> "resolve", val |-> Left(id, out.val.value)]

\* the block has returned or thrown: the promise of asyncEvalIteration is
\* settled
AsyncEvalSettle ==
  /\ op = "asyncEvalIteration"
  /\ pc = "exit"
  /\ result' = asyncEvalIteration(signal, nextId)
  /\ nextId' = nextId + 1
  /\ pc' = "done"
  /\ UNCHANGED <<methodVars, pipeVars, op, block, returns, idx, its, bound, signal, promise, log>>

\* ------------------------------------------------------------- pipeEither
\* the Either a step returns (or its promise delivers)
StepEither(s, id) ==
  IF s.kind = "Left" THEN Left(id, s.payload) ELSE Right(id, s.payload)

\* faulty variant of PipeCall: the length is tested before the first
\* iteration and an empty list returns the unset current
PipeCallChecksLength ==
  /\ op = "pipe"
  /\ pipe.pc = "idle"
  /\ apipe.pc # "loop"
  /\ \A k \in 1..Len(items) : ~items[k].promise
  /\ pipe' = [pipe EXCEPT !.pc = IF Len(items) = 0 THEN "done" ELSE "loop"]
  /\ pipeResult' = IF Len(items) = 0 THEN Ret(Raw(Undefined)) ELSE pipeResult
  /\ UNCHANGED <<methodVars, op, nextId, evalVars, items, pipeLog, apipe,
                 apipeResult, apipeLog, inflight, settled>>

\* pipeEither(...items): the locals are initialised; the steps of
\* pipeEither are synchronous
PipeCall ==
  /\ op = "pipe"
  /\ pipe.pc = "idle"
  /\ apipe.pc # "loop"
  /\ \A k \in 1..Len(items) : ~items[k].promise
  /\ pipe' = [pipe EXCEPT !.pc = "loop"]
  /\ UNCHANGED <<methodVars, op, nextId, evalVars, items, pipeResult, pipeLog, apipe,
                 apipeResult, apipeLog, inflight, settled>>

\* faulty variant of pipeAfterEntry: foundError is never set
pipeAfterEntryNoStop(st, cur, n) ==
  LET st1 == [st EXCEPT !.current = cur,
                        !.values = IF isLeft(cur) THEN @ ELSE Append(@, cur.value),
                        !.index = @ + 1]
  IN [st1 EXCEPT !.pc = IF st1.index < n THEN "loop" ELSE "done"]

\* faulty variant of pipeAfterEntry: the payload is pushed whatever the variant
pipeAfterEntryPushesLeft(st, cur, n) ==
  LET st1 == [st EXCEPT !.current = cur,
                        !.foundError = IF isLeft(cur) THEN TRUE ELSE @,
                        !.values = Append(@, cur.value),
                        !.index = @ + 1]
  IN [st1 EXCEPT !.pc = IF ~st1.foundError /\ st1.index < n THEN "loop" ELSE "done"]

\* the rest of a loop iteration of pipeEither once the step has returned
\* cur: the isLeft test, values.push, index += 1 and the loop condition
pipeAfterEntry(st, cur, n) ==
  LET st1 == [st EXCEPT !.current = cur,
                        !.foundError = IF isLeft(cur) THEN TRUE ELSE @,
                        !.values = IF isLeft(cur) THEN @ ELSE Append(@, cur.value),
                        !.index = @ + 1]
  IN [st1 EXCEPT !.pc = IF ~st1.foundError /\ st1.index < n THEN "loop" ELSE "done"]

\* one iteration of the do-while loop of pipeEither, with the return that
\* follows the last one
PipeIteration ==
  /\ op = "pipe"
  /\ pipe.pc = "loop"
  /\ apipe.pc # "loop"
  /\ IF pipe.index >= Len(items)
       THEN /\ pipe' = [pipe EXCEPT !.pc = "done"]
            /\ pipeResult' = [kind |-> "throw", val |-> TypeError]
            /\ UNCHANGED <<pipeLog, nextId>>
       ELSE LET k == pipe.index + 1
                entry == items[k]
                lg == Append(pipeLog, PEvent("call", k, pipe.values, NoValue))
            IN IF entry.kind = "Throw"
                 THEN /\ pipe' = [pipe EXCEPT !.pc = "done"]
                      /\ pipeResult' = [kind |-> "throw", val |-> Raw(entry.payload)]
                      /\ pipeLog' = Append(lg, PEvent("result", k, <<>>, Raw(entry.payload)))
                      /\ UNCHANGED nextId
                 ELSE LET cur == StepEither(entry, nextId)
                          st == pipeAfterEntry(pipe, cur, Len(items))
                      IN /\ pipe' = st
                         /\ pipeResult' = IF st.pc = "done"
                                            THEN [kind |-> "return", val |-> st.current]
                                            ELSE pipeResult
                         /\ pipeLog' = Append(lg, PEvent("result", k, <<>>, cur))
                         /\ nextId' = nextId + 1
  /\ UNCHANGED <<methodVars, op, evalVars, items, apipe, apipeResult, apipeLog, inflight,
                 settled>>

\* -------------------------------------------------------- asyncPipeEither
\* asyncPipeEither(...items): the locals are initialised
AsyncPipeCall ==
  /\ op = "pipe"
  /\ apipe.pc = "idle"
  /\ pipe.pc # "loop"
  /\ apipe' = [apipe EXCEPT !.pc = "loop"]
  /\ UNCHANGED <<methodVars, op, nextId, evalVars, items, pipe, pipeResult, pipeLog,
                 apipeResult, apipeLog, inflight, settled>>

\* faulty variant of asyncPipeAfterEntry: foundError is never set
asyncPipeAfterEntryNoStop(st, cur, n) ==
  LET st1 == [st EXCEPT !.current = cur,
                        !.values = IF isLeft(cur) THEN @ ELSE Append(@, cur.value),
                        !.index = @ + 1]
  IN [st1 EXCEPT !.pc = IF st1.index < n THEN "loop" ELSE "done"]

\* the rest of a loop iteration of asyncPipeEither once current is set
asyncPipeAfterEntry(st, cur, n) ==
  LET st1 == [st EXCEPT !.current = cur,
                        !.foundError = IF isLeft(cur) THEN TRUE ELSE @,
                        !.values = IF isLeft(cur) THEN @ ELSE Append(@, cur.value),
                        !.index = @ + 1]
  IN [st1 EXCEPT !.pc = IF ~st1.foundError /\ st1.index < n THEN "loop" ELSE "done"]

\* the iteration goes on with current = cur; after the last one the
\* promise of asyncPipeEither resolves to current
AsyncPipeContinue(cur) ==
  LET st == asyncPipeAfterEntry(apipe, cur, Len(items)) IN
    /\ apipe' = st
    /\ apipeResult' = IF st.pc = "done"
                        THEN [kind |-> "resolve", val |-> st.current]
                        ELSE apipeResult

\* the Promise object itself, seen as a value: no isLeft, no value
PromiseObject == [cls |-> "Promise", id |-> 0, value |-> Undefined]

\* faulty variant of AsyncPipeIteration: the promise a step returns is not awaited
AsyncPipeIterationNoAwait ==
  /\ op = "pipe"
  /\ apipe.pc = "loop"
  /\ pipe.pc # "loop"
  /\ IF apipe.index >= Len(items)
       THEN /\ apipe' = [apipe EXCEPT !.pc = "done"]
            /\ apipeResult' = [kind |-> "reject", val |-> TypeError]
            /\ UNCHANGED <<apipeLog, nextId, inflight>>
       ELSE LET k == apipe.index + 1
                entry == items[k]
                lg == Append(apipeLog, PEvent("call", k, apipe.values, NoValue))
            IN IF entry.promise
                 THEN /\ inflight' = inflight \cup {k}
                      /\ AsyncPipeContinue(PromiseObject)
                      /\ apipeLog' = lg
                      /\ UNCHANGED nextId
                 ELSE IF entry.kind = "Throw"
                   THEN /\ apipe' = [apipe EXCEPT !.pc = "done"]
                        /\ apipeResult' = [kind |-> "reject", val |-> Raw(entry.payload)]
                        /\ apipeLog' = Append(lg, PEvent("result", k, <<>>, Raw(entry.payload)))
                        /\ UNCHANGED <<nextId, inflight>>
                   ELSE /\ AsyncPipeContinue(StepEither(entry, nextId))
                        /\ apipeLog' = Append(lg, PEvent("result", k, <<>>, StepEither(entry, nextId)))
                        /\ nextId' = nextId + 1
                        /\ UNCHANGED inflight
  /\ UNCHANGED <<methodVars, op, evalVars, items, pipe, pipeResult, pipeLog, settled>>

\* one iteration of the do-while loop of asyncPipeEither up to its await:
\* the step is called; a Promise suspends the function, an Either is
\* handled at once
AsyncPipeIteration ==
  /\ op = "pipe"
  /\ apipe.pc = "loop"
  /\ pipe.pc # "loop"
  /\ IF apipe.index >= Len(items)
       THEN /\ apipe' = [apipe EXCEPT !.pc = "done"]
            /\ apipeResult' = [kind |-> "reject", val |-> TypeError]
            /\ UNCHANGED <<apipeLog, nextId, inflight>>
       ELSE LET k == apipe.index + 1
                entry == items[k]
                lg == Append(apipeLog, PEvent("call", k, apipe.values, NoValue))
            IN IF entry.promise
                 THEN /\ inflight' = inflight \cup {k}
                      /\ apipe' = [apipe EXCEPT !.pc = "await"]
                      /\ apipeLog' = lg
                      /\ UNCHANGED <<apipeResult, nextId>>
                 ELSE IF entry.kind = "Throw"
                   THEN /\ apipe' = [apipe EXCEPT !.pc = "done"]
                        /\ apipeResult' = [kind |-> "reject", val |-> Raw(entry.payload)]
                        /\ apipeLog' = Append(lg, PEvent("result", k, <<>>, Raw(entry.payload)))
                        /\ UNCHANGED <<nextId, inflight>>
                   ELSE /\ AsyncPipeContinue(StepEither(entry, nextId))
                        /\ apipeLog' = Append(lg, PEvent("result", k, <<>>, StepEither(entry, nextId)))
                        /\ nextId' = nextId + 1
                        /\ UNCHANGED inflight
  /\ UNCHANGED <<methodVars, op, evalVars, items, pipe, pipeResult, pipeLog, settled>>

\* the host scheduler settles the pending promise of a step
PipeHostSettle ==
  /\ op = "pipe"
  /\ pipe.pc # "loop"
  /\ apipe.pc # "loop"
  /\ \E k \in inflight :
       LET entry == items[k]
           val == IF entry.kind = "Throw" THEN Raw(entry.payload)
                  ELSE StepEither(entry, nextId)
       IN /\ inflight' = inflight \ {k}
          /\ settled' = (k :> [state |-> IF entry.kind = "Throw" THEN "rejected"
                                         ELSE "fulfilled",
                               val |-> val]) @@ settled
          /\ apipeLog' = Append(apipeLog, PEvent("result", k, <<>>, val))
          /\ nextId' = IF entry.kind = "Throw" THEN nextId ELSE nextId + 1
  /\ UNCHANGED <<methodVars, op, evalVars, items, pipe, pipeResult, pipeLog, apipe,
                 apipeResult>>

\* faulty variant of AsyncPipeResume: a rejection is turned into a Left
AsyncPipeResumeWrapsLeft ==
  /\ op = "pipe"
  /\ apipe.pc = "await"
  /\ pipe.pc # "loop"
  /\ (apipe.index + 1) \in DOMAIN settled
  /\ LET p == settled[apipe.index + 1] IN
       IF p.state = "rejected"
         THEN AsyncPipeContinue(Left(0, p.val.value))
         ELSE AsyncPipeContinue(p.val)
  /\ UNCHANGED <<methodVars, op, nextId, evalVars, items, pipe, pipeResult, pipeLog,
                 apipeLog, inflight, settled>>

\* asyncPipeEither resumes after `await entryEvaluated`: a rejection
\* rejects its promise, an Either becomes current
AsyncPipeResume ==
  /\ op = "pipe"
  /\ apipe.pc = "await"
  /\ pipe.pc # "loop"
  /\ (apipe.index + 1) \in DOMAIN settled
  /\ LET p == settled[apipe.index + 1] IN
       IF p.state = "rejected"
         THEN /\ apipe' = [apipe EXCEPT !.pc = "done"]
              /\ apipeResult' = [kind |-> "reject", val |-> p.val]
         ELSE AsyncPipeContinue(p.val)
  /\ UNCHANGED <<methodVars, op, nextId, evalVars, items, pipe, pipeResult, pipeLog,
                 apipeLog, inflight, settled>>


\* ----------------------------------------------------------------- Option
\* faulty variant of Some: null and undefined are wrapped like any value
SomeUnchecked(id, val) == Ret(OptionSome(id, val))

\* Some(val): throws on null and undefined
Some(id, val) ==
  IF isNullish(val) THEN Thr(Raw("Error:Some(null | undefined)"))
  ELSE Ret(OptionSome(id, val))

\* faulty variant of Maybe: every falsy value is taken for absent
MaybeFalsy(id, val) ==
  IF val \in {Null, Undefined, "0", "false", ""} THEN None ELSE OptionSome(id, val)

\* Maybe(val): None for null and undefined, a new OptionSome otherwise
Maybe(id, val) == IF isNullish(val) THEN None ELSE OptionSome(id, val)

\* faulty variant of OptionGet: an empty Option yields undefined
OptionGetUndefined(o) ==
  IF isEmpty(o) THEN Ret(Raw(Undefined)) ELSE Ret(Raw(o.value))

\* Option.get(): the payload, or the error of OptionNone.get
OptionGet(o) ==
  IF isEmpty(o) THEN Thr(Raw("Error:None.get")) ELSE Ret(Raw(o.value))


\* ---------------------------------------------- callbacks and lazy arguments
\* a callback handed to an operation, given by what one invocation of it
\* does: it returns one of the values, or it throws an Error
CallbacksOf(values) ==
  [kind : {"return"}, val : values] \cup [kind : {"throw"}, val : {Raw("Error:boom")}]

\* a callback that returns one of the values or throws the Error `err`
CallbacksThrowing(values, err) ==
  [kind : {"return"}, val : values] \cup [kind : {"throw"}, val : {Raw(err)}]

\* callbacks returning plain values, predicates returning a boolean
Callbacks == CallbacksOf({Raw(v) : v \in Atoms})
Predicates == CallbacksOf({Raw("true"), Raw("false")})

\* a LazyArg<T>: a value of T, or a function producing one (or throwing)
LazyArgsOf(values) ==
  [lazy : {FALSE}, kind : {"return"}, val : values]
    \cup {[lazy |-> TRUE, kind |-> f.kind, val |-> f.val] : f \in CallbacksOf(values)}

LazyArgs == LazyArgsOf({Raw(v) : v \in Atoms})

\* the call expression f(arg): the outcome of the callback and the record
\* of its invocation under the name of the parameter
Invoke(f, name, arg) ==
  [res |-> IF f.kind = "throw" THEN Thr(f.val) ELSE Ret(f.val),
   calls |-> <<Invoked(name, arg)>>]

\* the outcome of an operation that invokes nothing
Plain(res) == [res |-> res, calls |-> <<>>]

\* faulty variant of extractLazyArg: a function is handed back as it is
extractLazyArgVerbatim(param, name) ==
  IF param.lazy
    THEN Plain(Ret([cls |-> "Function", id |-> 0, value |-> param.val.value]))
    ELSE Plain(Ret(param.val))

\* extractLazyArg(param): param() when param is a function, else param
extractLazyArg(param, name) ==
  IF param.lazy THEN Invoke(param, name, Undefined) ELSE Plain(Ret(param.val))

\* --------------------------------------------------------- Option methods
\* faulty variant of OptionGetOrElse: the alternative is extracted before the test
OptionGetOrElseEager(o, alt) ==
  LET r == extractLazyArg(alt, "alt")
  IN  IF isEmpty(o) \/ r.res.kind = "throw" THEN r
      ELSE [res |-> OptionGet(o), calls |-> r.calls]

\* Option.getOrElse(alt): this.isEmpty ? extractLazyArg(alt) : this.get()
OptionGetOrElse(o, alt) ==
  IF isEmpty(o) THEN extractLazyArg(alt, "alt") ELSE Plain(OptionGet(o))

\* faulty variant of OptionMap: the result of fn is wrapped without the
\* check for null and undefined
OptionMapNoCollapse(o, fn, id) ==
  IF isEmpty(o) THEN Plain(Ret(None))
  ELSE LET r == Invoke(fn, "fn", o.value)
       IN  [res |-> IF r.res.kind = "throw" THEN r.res
                    ELSE Ret(OptionSome(id, r.res.val.value)),
            calls |-> r.calls]

\* faulty variant of OptionMap: every falsy result of fn is taken for absent
OptionMapFalsy(o, fn, id) ==
  IF isEmpty(o) THEN Plain(Ret(None))
  ELSE LET r == Invoke(fn, "fn", o.value)
       IN  [res |-> IF r.res.kind = "throw" THEN r.res
                    ELSE Ret(MaybeFalsy(id, r.res.val.value)),
            calls |-> r.calls]

\* Option.map(fn): this.isEmpty ? None : Maybe(fn(this.get()))
OptionMap(o, fn, id) ==
  IF isEmpty(o) THEN Plain(Ret(None))
  ELSE LET r == Invoke(fn, "fn", o.value)
       IN  [res |-> IF r.res.kind = "throw" THEN r.res
                    ELSE Ret(Maybe(id, r.res.val.value)),
            calls |-> r.calls]

\* Option.fold(ifEmpty, fn)
OptionFold(o, ifEmpty, fn) ==
  IF isEmpty(o) THEN extractLazyArg(ifEmpty, "ifEmpty")
  ELSE Invoke(fn, "fn", o.value)

\* Option.filter(fn): this.isEmpty || fn(this.get()) ? this : None
OptionFilter(o, fn) ==
  IF isEmpty(o) THEN Plain(Ret(o))
  ELSE LET r == Invoke(fn, "fn", o.value)
       IN  [res |-> IF r.res.kind = "throw" THEN r.res
                    ELSE IF r.res.val.value = "true" THEN Ret(o) ELSE Ret(None),
            calls |-> r.calls]

\* Option.filterNot(fn): this.isEmpty || !fn(this.get()) ? this : None
OptionFilterNot(o, fn) ==
  IF isEmpty(o) THEN Plain(Ret(o))
  ELSE LET r == Invoke(fn, "fn", o.value)
       IN  [res |-> IF r.res.kind = "throw" THEN r.res
                    ELSE IF r.res.val.value # "true" THEN Ret(o) ELSE Ret(None),
            calls |-> r.calls]

\* Option.orElse(alt): this.isEmpty ? extractLazyArg(alt) : this
OptionOrElse(o, alt) ==
  IF isEmpty(o) THEN extractLazyArg(alt, "alt") ELSE Plain(Ret(o))

\* Option.or(alt): this.isEmpty ? Maybe(extractLazyArg(alt)) : this
OptionOr(o, alt, id) ==
  IF isEmpty(o)
    THEN LET r == extractLazyArg(alt, "alt")
         IN  [res |-> IF r.res.kind = "throw" THEN r.res
                      ELSE Ret(Maybe(id, r.res.val.value)),
              calls |-> r.calls]
    ELSE Plain(Ret(o))

\* Option.toRight(left): Left(extractLazyArg(left)) or Right(this.get())
OptionToRight(o, left, id) ==
  IF isEmpty(o)
    THEN LET r == extractLazyArg(left, "left")
         IN  [res |-> IF r.res.kind = "throw" THEN r.res
                      ELSE Ret(Left(id, r.res.val.value)),
              calls |-> r.calls]
    ELSE Plain(Ret(Right(id, o.value)))

\* Option.toLeft(right): Right(extractLazyArg(right)) or Left(this.get())
OptionToLeft(o, right, id) ==
  IF isEmpty(o)
    THEN LET r == extractLazyArg(right, "right")
         IN  [res |-> IF r.res.kind = "throw" THEN r.res
                      ELSE Ret(Right(id, r.res.val.value)),
              calls |-> r.calls]
    ELSE Plain(Ret(Left(id, o.value)))

\* Option.when(cond, a): cond ? Some(extractLazyArg(a)) : None
OptionWhen(cond, a, id) ==
  IF cond
    THEN LET r == extractLazyArg(a, "a")
         IN  [res |-> IF r.res.kind = "throw" THEN r.res
                      ELSE Some(id, r.res.val.value),
              calls |-> r.calls]
    ELSE Plain(Ret(None))

\* Option.unless(cond, a): OptionW.when(!cond, a)
OptionUnless(cond, a, id) == OptionWhen(~cond, a, id)

\* --------------------------------------------------------- Either methods
\* Either.getOrElse(or): the payload of a Right, else extractLazyArg(or)
EitherGetOrElse(e, or) ==
  IF isRight(e) THEN Plain(Ret(Raw(e.value))) ELSE extractLazyArg(or, "or")

\* faulty variant of EitherFlatMap: f is applied to the payload of a Left too
EitherFlatMapEager(e, f) ==
  IF isRight(e) THEN Invoke(f, "f", e.value)
  ELSE [res |-> Ret(e), calls |-> Invoke(f, "f", e.value).calls]

\* Either.flatMap(f): this.isRight ? f(this.value) : this
EitherFlatMap(e, f) ==
  IF isRight(e) THEN Invoke(f, "f", e.value) ELSE Plain(Ret(e))

\* Either.filterOrElse(p, zero): a Right that fails p becomes
\* Left(extractLazyArg(zero)); everything else is returned as it is
EitherFilterOrElse(e, p, zero, id) ==
  IF isRight(e)
    THEN LET r == Invoke(p, "p", e.value)
             z == extractLazyArg(zero, "zero")
         IN  IF r.res.kind = "throw" THEN r
             ELSE IF r.res.val.value = "true"
               THEN [res |-> Ret(e), calls |-> r.calls]
               ELSE [res |-> IF z.res.kind = "throw" THEN z.res
                             ELSE Ret(Left(id, z.res.val.value)),
                     calls |-> r.calls \o z.calls]
    ELSE Plain(Ret(e))

\* faulty variant of EitherToOption: the payload goes through Maybe
EitherToOptionMaybe(e, id) ==
  IF isRight(e) THEN Ret(Maybe(id, e.value)) ELSE Ret(None)

\* Either.toOption(): this.isRight ? Some(this.value) : None
EitherToOption(e, id) ==
  IF isRight(e) THEN Some(id, e.value) ELSE Ret(None)

\* Either.cond(test, right, left)
EitherCond(test, right, left, id) ==
  LET r == IF test THEN extractLazyArg(right, "right")
           ELSE extractLazyArg(left, "left")
  IN  [res |-> IF r.res.kind = "throw" THEN r.res
               ELSE IF test THEN Ret(Right(id, r.res.val.value))
               ELSE Ret(Left(id, r.res.val.value)),
       calls |-> r.calls]

\* -------------------------------------------------------------------- Try
\* Failure(exception) / Success(val)
Failure(id, exception) == [cls |-> "TryFailure", id |-> id, value |-> exception]
Success(id, val) == [cls |-> "TrySuccess", id |-> id, value |-> val]

isFailure(t) == t.cls = "TryFailure"
isSuccess(t) == t.cls = "TrySuccess"

\* faulty variant of Try: the error of the producer is not caught
TryUncaught(r, id) ==
  IF r.kind = "return" THEN Ret(Success(id, r.val)) ELSE Thr(Raw(r.val))

\* Try(r): try { return Success(r()); } catch (err) { return Failure(err); }
Try(r, id) ==
  IF r.kind = "return" THEN Ret(Success(id, r.val)) ELSE Ret(Failure(id, r.val))

\* Try.get(): TryFailure throws its exception, TrySuccess returns its value
TryGet(t) == IF isFailure(t) THEN Thr(Raw(t.value)) ELSE Ret(Raw(t.value))

\* faulty variant of TryToOption: the value goes through Maybe
TryToOptionMaybe(t, id) ==
  IF isFailure(t) THEN Ret(None) ELSE Ret(Maybe(id, t.value))

\* Try.toOption(): None for a TryFailure, Some(value) for a TrySuccess
TryToOption(t, id) == IF isFailure(t) THEN Ret(None) ELSE Some(id, t.value)

\* Try.getOrElse(alt): this.isFailure ? extractLazyArg(alt) : this.get()
TryGetOrElse(t, alt) ==
  IF isFailure(t) THEN extractLazyArg(alt, "alt") ELSE Plain(TryGet(t))

\* Try.orElse(alt): a Success is returned as it is; for a Failure the
\* alternative is extracted inside try/catch, its error becomes a Failure
TryOrElse(t, alt, id) ==
  IF isSuccess(t) THEN Plain(Ret(t))
  ELSE LET r == extractLazyArg(alt, "alt")
       IN  [res |-> IF r.res.kind = "throw" THEN Ret(Failure(id, r.res.val.value))
                    ELSE r.res,
            calls |-> r.calls]

\* faulty variant of TryFold: an error of fb is not handed to fa
TryFoldUncaught(t, fa, fb) ==
  IF isFailure(t) THEN Invoke(fa, "fa", t.value) ELSE Invoke(fb, "fb", t.value)

\* Try.fold(fa, fb): TryFailure applies fa to the exception; TrySuccess
\* applies fb to the value inside try/catch and fa to what fb threw
TryFold(t, fa, fb) ==
  IF isFailure(t) THEN Invoke(fa, "fa", t.value)
  ELSE LET r == Invoke(fb, "fb", t.value)
           h == Invoke(fa, "fa", r.res.val.value)
       IN  IF r.res.kind = "throw"
             THEN [res |-> h.res, calls |-> r.calls \o h.calls]
             ELSE r

\* faulty variant of TryFlatMap: an error of f is not caught
TryFlatMapUncaught(t, f, name, id) ==
  IF isFailure(t) THEN Plain(Ret(t)) ELSE Invoke(f, name, t.value)

\* Try.flatMap(f): TryFailure returns this; TrySuccess applies f to the
\* value inside try/catch, an error of f becomes a Failure; `name` is the
\* parameter of the caller that f was handed over as
TryFlatMap(t, f, name, id) ==
  IF isFailure(t) THEN Plain(Ret(t))
  ELSE LET r == Invoke(f, name, t.value)
       IN  [res |-> IF r.res.kind = "throw" THEN Ret(Failure(id, r.res.val.value))
                    ELSE r.res,
            calls |-> r.calls]

\* Try.transform(s, f): TryFailure applies f to the exception inside
\* try/catch; TrySuccess is this.flatMap(s)
TryTransform(t, s, f, id) ==
  IF isFailure(t)
    THEN LET r == Invoke(f, "f", t.value)
         IN  [res |-> IF r.res.kind = "throw" THEN Ret(Failure(id, r.res.val.value))
                      ELSE r.res,
              calls |-> r.calls]
    ELSE TryFlatMap(t, s, "s", id)

\* Try(r) is called
TryCall ==
  /\ op = "Try"
  /\ subject = NoResult
  /\ subject' = Try(input.r, nextId)
  /\ outs' = Call("Try", NoValue, [r |-> input.r], Try(input.r, nextId))
  /\ fcalls' = <<Invoked("r", Undefined)>>
  /\ nextId' = nextId + 1
  /\ nops' = nops + 1
  /\ UNCHANGED <<op, evalVars, pipeVars, input>>

\* get() is called on the Try that was built
TryGetCall ==
  /\ op = "Try"
  /\ subject.kind = "return"
  /\ nops < MaxOps
  /\ outs' = Call("Try.get", subject.val, <<>>, TryGet(subject.val))
  /\ fcalls' = <<>>
  /\ nops' = nops + 1
  /\ UNCHANGED <<op, nextId, evalVars, pipeVars, input, subject>>

\* toOption() is called on the Try that was built
TryToOptionCall ==
  /\ op = "Try"
  /\ subject.kind = "return"
  /\ nops < MaxOps
  /\ outs' = Call("Try.toOption", subject.val, <<>>,
                TryToOption(subject.val, nextId))
  /\ fcalls' = <<>>
  /\ nextId' = nextId + 1
  /\ nops' = nops + 1
  /\ UNCHANGED <<op, evalVars, pipeVars, input, subject>>

\* ------------------------------------------------- operations on an Option
\* one operation of the caller: the call and the invocations of its
\* callbacks are recorded, `after` is the value the caller goes on with
Operation(c, calls, after) ==
  /\ outs' = c
  /\ fcalls' = calls
  /\ subject' = after
  /\ nextId' = nextId + 1
  /\ nops' = nops + 1
  /\ UNCHANGED <<op, input, evalVars, pipeVars>>

\* the caller holds an Option and may apply one more operation to it
HoldsOption ==
  /\ op = "Option"
  /\ subject.kind = "return"
  /\ subject.val.cls \in {"OptionSome", "OptionNone"}
  /\ nops < MaxOps

\* Maybe(x)
MaybeCall ==
  /\ op = "Option"
  /\ subject = NoResult
  /\ \E x \in MaybeValues :
       Operation(Call("Maybe", NoValue, [x |-> x], Ret(Maybe(nextId, x))),
                 <<>>, Ret(Maybe(nextId, x)))

\* Some(x)
SomeCall ==
  /\ op = "Option"
  /\ subject = NoResult
  /\ \E x \in Atoms :
       Operation(Call("Some", NoValue, [x |-> x], Some(nextId, x)),
                 <<>>, Some(nextId, x))

\* Option.when(cond, a)
OptionWhenCall ==
  /\ op = "Option"
  /\ subject = NoResult
  /\ \E cond \in BOOLEAN, a \in LazyArgs :
       LET r == OptionWhen(cond, a, nextId)
       IN  Operation(Call("Option.when", NoValue, [cond |-> cond, a |-> a], r.res),
                     r.calls, r.res)

\* Option.unless(cond, a)
OptionUnlessCall ==
  /\ op = "Option"
  /\ subject = NoResult
  /\ \E cond \in BOOLEAN, a \in LazyArgs :
       LET r == OptionUnless(cond, a, nextId)
       IN  Operation(Call("Option.unless", NoValue, [cond |-> cond, a |-> a], r.res),
                     r.calls, r.res)

\* option.map(fn): the caller goes on with the result
OptionMapCall ==
  /\ HoldsOption
  /\ \E fn \in Callbacks :
       LET r == OptionMap(subject.val, fn, nextId)
       IN  Operation(Call("Option.map", subject.val, [fn |-> fn], r.res),
                     r.calls, r.res)

\* option.or(alt)
OptionOrCall ==
  /\ HoldsOption
  /\ \E alt \in LazyArgs :
       LET r == OptionOr(subject.val, alt, nextId)
       IN  Operation(Call("Option.or", subject.val, [alt |-> alt], r.res),
                     r.calls, r.res)

\* option.filter(fn)
OptionFilterCall ==
  /\ HoldsOption
  /\ \E fn \in Predicates :
       LET r == OptionFilter(subject.val, fn)
       IN  Operation(Call("Option.filter", subject.val, [fn |-> fn], r.res),
                     r.calls, r.res)

\* option.filterNot(fn)
OptionFilterNotCall ==
  /\ HoldsOption
  /\ \E fn \in Predicates :
       LET r == OptionFilterNot(subject.val, fn)
       IN  Operation(Call("Option.filterNot", subject.val, [fn |-> fn], r.res),
                     r.calls, r.res)

\* option.get(): the caller keeps the Option
OptionGetCall ==
  /\ HoldsOption
  /\ Operation(Call("Option.get", subject.val, <<>>, OptionGet(subject.val)),
               <<>>, subject)

\* option.getOrElse(alt)
OptionGetOrElseCall ==
  /\ HoldsOption
  /\ \E alt \in LazyArgs :
       LET r == OptionGetOrElse(subject.val, alt)
       IN  Operation(Call("Option.getOrElse", subject.val, [alt |-> alt], r.res),
                     r.calls, subject)

\* option.fold(ifEmpty, fn)
OptionFoldCall ==
  /\ HoldsOption
  /\ \E ifEmpty \in LazyArgs, fn \in Callbacks :
       LET r == OptionFold(subject.val, ifEmpty, fn)
       IN  Operation(Call("Option.fold", subject.val,
                          [ifEmpty |-> ifEmpty, fn |-> fn], r.res),
                     r.calls, subject)

\* option.orElse(alt): alt is an Option or produces one
OptionOrElseCall ==
  /\ HoldsOption
  /\ \E alt \in LazyArgsOf({None, OptionSome(nextId, "a")}) :
       LET r == OptionOrElse(subject.val, alt)
       IN  Operation(Call("Option.orElse", subject.val, [alt |-> alt], r.res),
                     r.calls, subject)

\* option.toRight(left)
OptionToRightCall ==
  /\ HoldsOption
  /\ \E left \in LazyArgs :
       LET r == OptionToRight(subject.val, left, nextId)
       IN  Operation(Call("Option.toRight", subject.val, [left |-> left], r.res),
                     r.calls, subject)

\* option.toLeft(right)
OptionToLeftCall ==
  /\ HoldsOption
  /\ \E right \in LazyArgs :
       LET r == OptionToLeft(subject.val, right, nextId)
       IN  Operation(Call("Option.toLeft", subject.val, [right |-> right], r.res),
                     r.calls, subject)

\* the functions g of the composition law; f is given on the one payload
\* it is applied to
Functions == [Atoms -> Atoms]

\* the callback that returns what the function h returns for v
CallbackOf(h, v) == [kind |-> "return", val |-> Raw(h[v])]

\* map(f) then map(g): g is applied to the payload map(f) left, if any
MapThenMap(x, f, g, id) ==
  LET first == OptionMap(Maybe(id, x), CallbackOf(f, x), id + 1).res.val
  IN  IF isEmpty(first) THEN OptionMap(first, CallbackOf(g, x), id + 2).res
      ELSE OptionMap(first, CallbackOf(g, first.value), id + 2).res

\* map(v => g(f(v))): one callback that returns g(f(v))
MapComposed(x, f, g, id) ==
  OptionMap(Maybe(id, x), [kind |-> "return", val |-> Raw(g[f[x]])], id + 1).res

\* the caller evaluates Maybe(x).map(f).map(g) and Maybe(x).map(v => g(f(v)))
MapComposition ==
  /\ op = "Option"
  /\ subject = NoResult
  /\ \E x \in Atoms, g \in Functions :
     \E f \in [{x} -> Atoms] :
       /\ subject' = MapThenMap(x, f, g, nextId)
       /\ outs' = Call("mapComposition", NoValue,
                       [x |-> x, fx |-> f[x], gfx |-> g[f[x]]],
                       MapComposed(x, f, g, nextId + 3))
  /\ fcalls' = <<>>
  /\ nextId' = nextId + 5
  /\ nops' = nops + 1
  /\ UNCHANGED <<op, input, evalVars, pipeVars>>

\* try.getOrElse(alt)
TryGetOrElseCall ==
  /\ op = "Try"
  /\ subject.kind = "return"
  /\ nops < MaxOps
  /\ \E alt \in LazyArgs :
       LET r == TryGetOrElse(subject.val, alt)
       IN  Operation(Call("Try.getOrElse", subject.val, [alt |-> alt], r.res),
                     r.calls, subject)

\* try.orElse(alt): alt is a Try or produces one
TryOrElseCall ==
  /\ op = "Try"
  /\ subject.kind = "return"
  /\ nops < MaxOps
  /\ \E alt \in LazyArgsOf({Success(nextId, "a"), Failure(nextId, "Error:other")}) :
       LET r == TryOrElse(subject.val, alt, nextId)
       IN  Operation(Call("Try.orElse", subject.val, [alt |-> alt], r.res),
                     r.calls, subject)

\* the Try values a callback may return
TryResults(id) == {Success(id, "a"), Failure(id, "Error:other")}

\* try.fold(fa, fb)
TryFoldCall ==
  /\ op = "Try"
  /\ subject.kind = "return"
  /\ nops < MaxOps
  /\ \E fa \in CallbacksThrowing({Raw("a"), Raw(Undefined)}, "Error:fa"),
        fb \in CallbacksThrowing({Raw("a"), Raw(Undefined)}, "Error:fb") :
       LET r == TryFold(subject.val, fa, fb)
       IN  Operation(Call("Try.fold", subject.val, [fa |-> fa, fb |-> fb], r.res),
                     r.calls, subject)

\* try.flatMap(f)
TryFlatMapCall ==
  /\ op = "Try"
  /\ subject.kind = "return"
  /\ nops < MaxOps
  /\ \E f \in CallbacksThrowing(TryResults(nextId), "Error:f") :
       LET r == TryFlatMap(subject.val, f, "f", nextId)
       IN  Operation(Call("Try.flatMap", subject.val, [f |-> f], r.res),
                     r.calls, subject)

\* try.transform(s, f)
TryTransformCall ==
  /\ op = "Try"
  /\ subject.kind = "return"
  /\ nops < MaxOps
  /\ \E s \in CallbacksThrowing(TryResults(nextId), "Error:s"),
        f \in CallbacksThrowing(TryResults(nextId), "Error:f") :
       LET r == TryTransform(subject.val, s, f, nextId)
       IN  Operation(Call("Try.transform", subject.val, [s |-> s, f |-> f], r.res),
                     r.calls, subject)

\* ------------------------------------------------ operations on an Either
\* the caller holds an Either and may apply one more operation to it
HoldsEither ==
  /\ op = "Either"
  /\ subject.kind = "return"
  /\ IsEither(subject.val)
  /\ nops < MaxOps

\* Right(v)
RightCall ==
  /\ op = "Either"
  /\ subject = NoResult
  /\ \E v \in Atoms :
       Operation(Call("Right", NoValue, [val |-> v], Ret(Right(nextId, v))),
                 <<>>, Ret(Right(nextId, v)))

\* Left(e)
LeftCall ==
  /\ op = "Either"
  /\ subject = NoResult
  /\ \E e \in {LeftPayload(1), Null} :
       Operation(Call("Left", NoValue, [val |-> e], Ret(Left(nextId, e))),
                 <<>>, Ret(Left(nextId, e)))

\* Either.cond(test, right, left)
EitherCondCall ==
  /\ op = "Either"
  /\ subject = NoResult
  /\ \E test \in BOOLEAN, right \in LazyArgs, left \in LazyArgs :
       LET r == EitherCond(test, right, left, nextId)
       IN  Operation(Call("Either.cond", NoValue,
                          [test |-> test, right |-> right, left |-> left], r.res),
                     r.calls, r.res)

\* either.getOrElse(or)
EitherGetOrElseCall ==
  /\ HoldsEither
  /\ \E or \in LazyArgs :
       LET r == EitherGetOrElse(subject.val, or)
       IN  Operation(Call("Either.getOrElse", subject.val, [or |-> or], r.res),
                     r.calls, subject)

\* either.flatMap(f): f returns an Either or throws
EitherFlatMapCall ==
  /\ HoldsEither
  /\ \E f \in CallbacksOf({Right(nextId, "a"), Left(nextId, LeftPayload(2))}) :
       LET r == EitherFlatMap(subject.val, f)
       IN  Operation(Call("Either.flatMap", subject.val, [f |-> f], r.res),
                     r.calls, subject)

\* either.filterOrElse(p, zero)
EitherFilterOrElseCall ==
  /\ HoldsEither
  /\ \E p \in Predicates, zero \in LazyArgs :
       LET r == EitherFilterOrElse(subject.val, p, zero, nextId)
       IN  Operation(Call("Either.filterOrElse", subject.val,
                          [p |-> p, zero |-> zero], r.res),
                     r.calls, subject)

\* either.toOption()
EitherToOptionCall ==
  /\ HoldsEither
  /\ Operation(Call("Either.toOption", subject.val, <<>>,
                    EitherToOption(subject.val, nextId)),
               <<>>, subject)

\* ---------------------------------------------------------------- Matcher
\* the handler written in the i-th case: it returns a value of its own,
\* returns undefined, or throws an Error of its own
HandlerOf(i) ==
  CallbacksThrowing({Raw("r" \o ToString(i)), Raw(Undefined)},
                    "Error:h" \o ToString(i))

\* the case lists of up to MaxCases cases whose first members come from keys
CasesOf(keys) ==
  UNION {SeqsOf([i \in 1..MaxCases |-> [key : keys, handler : HandlerOf(i)]], n) :
           n \in 0..MaxCases}

\* the values match compares and the constructors matchType tests against;
\* Derived extends Base; an object is given by the name of its class
MatchKeys == {"k1", "k2"}
Constructors == {"Base", "Derived"}
Instances == Constructors \cup {"Other"}

\* value instanceof ctor
InstanceOf(value, ctor) ==
  value = ctor \/ (value = "Derived" /\ ctor = "Base")

RECURSIVE ScanCasesAll(_, _, _, _, _)
\* faulty variant of ScanCases: the scan goes on after a matching case, every
\* matching handler is invoked and the last result is returned
ScanCasesAll(hit, options, arg, i, id) ==
  IF i > Len(options) THEN Plain(Ret(None))
  ELSE LET rest == ScanCasesAll(hit, options, arg, i + 1, id)
           r == Invoke(options[i].handler, "h" \o ToString(i), arg)
       IN  IF ~hit[i] THEN rest
           ELSE IF r.res.kind = "throw" THEN r
           ELSE IF rest.calls = <<>>
             THEN [res |-> Some(id, r.res.val.value), calls |-> r.calls]
             ELSE [res |-> rest.res, calls |-> r.calls \o rest.calls]

RECURSIVE ScanCases(_, _, _, _, _)
\* for (let entry of options) { if (<entry matches>) return Some(entry[1](arg)); }
\* return None; hit[i] tells whether the i-th entry matches
ScanCases(hit, options, arg, i, id) ==
  IF i > Len(options) THEN Plain(Ret(None))
  ELSE IF hit[i]
    THEN LET r == Invoke(options[i].handler, "h" \o ToString(i), arg)
         IN  [res |-> IF r.res.kind = "throw" THEN r.res
                      ELSE Some(id, r.res.val.value),
              calls |-> r.calls]
    ELSE ScanCases(hit, options, arg, i + 1, id)

\* match(value, ...options): entry[0] === value, the handler takes no argument
match(value, options, id) ==
  ScanCases([i \in DOMAIN options |-> options[i].key = value], options,
            Undefined, 1, id)

\* ifElseChain(...options): entry[0] is the condition
ifElseChain(options, id) ==
  ScanCases([i \in DOMAIN options |-> options[i].key], options, Undefined, 1, id)

\* matchType(value, ...options): value instanceof entry[0], the handler
\* takes the value
matchType(value, options, id) ==
  ScanCases([i \in DOMAIN options |-> InstanceOf(value, options[i].key)],
            options, value, 1, id)

\* match(value, ...options) is called
MatchCall ==
  /\ op = "Matcher"
  /\ subject = NoResult
  /\ \E value \in MatchKeys, options \in CasesOf(MatchKeys) :
       LET r == match(value, options, nextId)
       IN  Operation(Call("match", NoValue,
                          [value |-> value, options |-> options], r.res),
                     r.calls, r.res)

\* ifElseChain(...options) is called
IfElseChainCall ==
  /\ op = "Matcher"
  /\ subject = NoResult
  /\ \E options \in CasesOf(BOOLEAN) :
       LET r == ifElseChain(options, nextId)
       IN  Operation(Call("ifElseChain", NoValue,
                          [value |-> Undefined, options |-> options], r.res),
                     r.calls, r.res)

\* matchType(value, ...options) is called
MatchTypeCall ==
  /\ op = "Matcher"
  /\ subject = NoResult
  /\ \E value \in Instances, options \in CasesOf(Constructors) :
       LET r == matchType(value, options, nextId)
       IN  Operation(Call("matchType", NoValue,
                          [value |-> value, options |-> options], r.res),
                     r.calls, r.res)

\* ----------------------------------------------------------- Option.later
\* faulty variant of LaterCall: a payload without subscribe and then is
\* reported as None
LaterCallReportsPlain ==
  /\ op = "later"
  /\ pc = "idle"
  /\ outs' = Call("Option.later", subject.val, <<>>, Ret(Raw(Undefined)))
  /\ IF input.kind \in {"empty", "plain"}
       THEN fcalls' = <<InvokedWith("fn", None)>> /\ pc' = "done"
       ELSE fcalls' = <<>> /\ pc' = "registered"
  /\ nops' = nops + 1
  /\ UNCHANGED <<op, nextId, pipeVars, input, subject, block, returns, idx,
                 its, bound, signal, result, promise, log>>

\* later(fn) runs: fn(None) on an empty Option; else item.subscribe or
\* item.then is looked up and, when there is one, called with the wrappers
\* res => fn(Maybe(res)) and () => fn(None); later returns undefined
LaterCall ==
  /\ op = "later"
  /\ pc = "idle"
  /\ outs' = Call("Option.later", subject.val, <<>>, Ret(Raw(Undefined)))
  /\ IF isEmpty(subject.val)
       THEN fcalls' = <<InvokedWith("fn", None)>> /\ pc' = "done"
       ELSE IF input.kind = "plain"
         THEN fcalls' = <<>> /\ pc' = "done"
         ELSE fcalls' = <<>> /\ pc' = "registered"
  /\ nops' = nops + 1
  /\ UNCHANGED <<op, nextId, pipeVars, input, subject, block, returns, idx,
                 its, bound, signal, result, promise, log>>

\* the host settles the promise the Option wraps, before or after later
LaterHostSettle ==
  /\ op = "later"
  /\ promise.state = "pending"
  /\ promise' = [state |-> IF input.settle = "reject" THEN "rejected"
                           ELSE "fulfilled",
                 val |-> Raw(input.val)]
  /\ UNCHANGED <<op, nextId, pipeVars, methodVars, block, returns, pc, idx,
                 its, bound, signal, result, log>>

\* faulty variant of LaterReaction: a rejection is dropped, fn is not called
LaterReactionDropsRejection ==
  /\ op = "later"
  /\ pc = "registered"
  /\ promise.state \in {"fulfilled", "rejected"}
  /\ fcalls' = IF promise.state = "fulfilled"
                 THEN <<InvokedWith("onSuccess", Maybe(nextId, promise.val.value))>>
                 ELSE <<>>
  /\ nextId' = nextId + 1
  /\ pc' = "done"
  /\ UNCHANGED <<op, pipeVars, input, subject, outs, nops, block, returns,
                 idx, its, bound, signal, result, promise, log>>

\* the reaction registered through then runs once the promise is settled:
\* the success wrapper calls fn(Maybe(res)), the failure wrapper fn(None)
LaterReaction ==
  /\ op = "later"
  /\ pc = "registered"
  /\ promise.state \in {"fulfilled", "rejected"}
  /\ fcalls' = IF promise.state = "fulfilled"
                 THEN <<InvokedWith("onSuccess", Maybe(nextId, promise.val.value))>>
                 ELSE <<InvokedWith("onFailure", None)>>
  /\ nextId' = nextId + 1
  /\ pc' = "done"
  /\ UNCHANGED <<op, pipeVars, input, subject, outs, nops, block, returns,
                 idx, its, bound, signal, result, promise, log>>

\* the observable subscribed to delivers a value or fails; after a failure
\* it delivers nothing more
ObservableEvent ==
  /\ op = "later"
  /\ pc = "registered"
  /\ input.kind = "observable"
  /\ Len(fcalls) < MaxNext
  /\ \/ /\ \E v \in Atoms :
             fcalls' = Append(fcalls, InvokedWith("onSuccess", Maybe(nextId, v)))
        /\ pc' = pc
     \/ /\ fcalls' = Append(fcalls, InvokedWith("onFailure", None))
        /\ pc' = "done"
  /\ nextId' = nextId + 1
  /\ UNCHANGED <<op, pipeVars, input, subject, outs, nops, block, returns,
                 idx, its, bound, signal, result, promise, log>>

\* --------------------------------------------------------------- TryAsync
\* faulty variant of tryAsyncSettled: a rejection of the awaited promise escapes
tryAsyncSettledRejects(p, id) ==
  IF p.state = "fulfilled"
    THEN [kind |-> "resolve", val |-> Success(id, p.val.value)]
    ELSE [kind |-> "reject", val |-> p.val]

\* TryAsync after `await r()`: Success of the value, Failure of the reason
tryAsyncSettled(p, id) ==
  IF p.state = "fulfilled"
    THEN [kind |-> "resolve", val |-> Success(id, p.val.value)]
    ELSE [kind |-> "resolve", val |-> Failure(id, p.val.value)]

\* TryAsync(r) is called: r() runs inside the try block; when it throws
\* the catch clause resolves the promise with a Failure, else TryAsync
\* suspends on the promise r returned
TryAsyncCall ==
  /\ op = "TryAsync"
  /\ pc = "idle"
  /\ fcalls' = <<Invoked("r", Undefined)>>
  /\ IF input.r.kind = "throw"
       THEN /\ result' = [kind |-> "resolve", val |-> Failure(nextId, input.r.val)]
            /\ nextId' = nextId + 1
            /\ pc' = "done"
            /\ UNCHANGED promise
       ELSE /\ promise' = [state |-> "pending", val |-> NoValue]
            /\ pc' = "awaitR"
            /\ UNCHANGED <<result, nextId>>
  /\ UNCHANGED <<op, pipeVars, input, subject, outs, nops, block, returns,
                 idx, its, bound, signal, log>>

\* the host settles the promise r returned
TryAsyncHostSettle ==
  /\ op = "TryAsync"
  /\ pc = "awaitR"
  /\ promise.state = "pending"
  /\ promise' = [state |-> IF input.r.kind = "reject" THEN "rejected"
                           ELSE "fulfilled",
                 val |-> Raw(input.r.val)]
  /\ UNCHANGED <<op, nextId, pipeVars, methodVars, block, returns, pc, idx,
                 its, bound, signal, result, log>>

\* TryAsync resumes after the await and resolves its promise
TryAsyncResume ==
  /\ op = "TryAsync"
  /\ pc = "awaitR"
  /\ promise.state \in {"fulfilled", "rejected"}
  /\ result' = tryAsyncSettled(promise, nextId)
  /\ nextId' = nextId + 1
  /\ promise' = NoPromise
  /\ pc' = "done"
  /\ UNCHANGED <<op, pipeVars, methodVars, block, returns, idx, its, bound,
                 signal, log>>

Next ==
  \/ IteratorNext
  \/ EvalCall
  \/ BlockStep
  \/ BlockBody
  \/ BlockUnwind
  \/ EvalReturn
  \/ AsyncEvalCall
  \/ AsyncStepStart
  \/ HostSettle
  \/ AsyncStepResume
  \/ AsyncEvalSettle
  \/ PipeCall
  \/ PipeIteration
  \/ AsyncPipeCall
  \/ AsyncPipeIteration
  \/ PipeHostSettle
  \/ AsyncPipeResume
  \/ TryCall
  \/ TryGetCall
  \/ TryToOptionCall
  \/ MaybeCall
  \/ SomeCall
  \/ OptionWhenCall
  \/ OptionUnlessCall
  \/ OptionMapCall
  \/ OptionOrCall
  \/ OptionFilterCall
  \/ OptionFilterNotCall
  \/ OptionGetCall
  \/ OptionGetOrElseCall
  \/ OptionFoldCall
  \/ OptionOrElseCall
  \/ OptionToRightCall
  \/ OptionToLeftCall
  \/ MapComposition
  \/ TryGetOrElseCall
  \/ TryOrElseCall
  \/ TryFoldCall
  \/ TryFlatMapCall
  \/ TryTransformCall
  \/ RightCall
  \/ LeftCall
  \/ EitherCondCall
  \/ EitherGetOrElseCall
  \/ EitherFlatMapCall
  \/ EitherFilterOrElseCall
  \/ EitherToOptionCall
  \/ MatchCall
  \/ IfElseChainCall
  \/ MatchTypeCall
  \/ LaterCall
  \/ LaterHostSettle
  \/ LaterReaction
  \/ ObservableEvent
  \/ TryAsyncCall
  \/ TryAsyncHostSettle
  \/ TryAsyncResume

Spec == Init /\ [][Next]_vars

\* the job queue of the host runs every promise reaction that is ready
LiveSpec == Spec /\ WF_vars(LaterReaction)

\* ================================================================ claims
\* index of the first step of b that is not a Right, 0 when there is none
FirstNonRight(b) ==
  IF \E k \in 1..Len(b) : b[k].kind # "Right"
    THEN CHOOSE k \in 1..Len(b) :
           /\ b[k].kind # "Right"
           /\ \A j \in 1..(k - 1) : b[j].kind = "Right"
    ELSE 0

\* the payloads of the steps of b, in written order
Payloads(b) == [k \in 1..Len(b) |-> b[k].payload]

FirstIsLeft(b) == FirstNonRight(b) # 0 /\ b[FirstNonRight(b)].kind = "Left"
FirstIsThrow(b) == FirstNonRight(b) # 0 /\ b[FirstNonRight(b)].kind = "Throw"

\* C1: when the k-th iterated container of the block is the first Left,
\* nothing written after the k-th iteration ever runs (no later container
\* is evaluated or iterated, the body is not reached) and evalIteration
\* returns that very Left: the instance built by step k, payload intact.
C1_ShortCircuit ==
  (op = "evalIteration" /\ FirstIsLeft(block)) =>
    LET k == FirstNonRight(block) IN
      /\ \A i \in 1..Len(log) : log[i].k <= k /\ log[i].ev # "body"
      /\ pc = "done" =>
           /\ result.kind = "return"
           /\ result.val = Left(k, block[k].payload)
           /\ log[Len(log)] = Event("throw", k, result.val)

C1_Witness ==
  /\ op = "evalIteration"
  /\ pc = "done"
  /\ Len(block) = 3
  /\ FirstNonRight(block) = 2
  /\ block[2].kind = "Left"
  /\ block[3].kind = "Left"

\* C2: when the block throws a value that is not an Either, evalIteration
\* returns a Left whose payload is the thrown value.
C2_RawThrowBecomesLeft ==
  (op = "evalIteration" /\ pc = "done" /\ FirstIsThrow(block)) =>
    /\ result.kind = "return"
    /\ isLeft(result.val)
    /\ result.val.value = block[FirstNonRight(block)].payload

\* C3: when the block completes normally, evalIteration returns Right(v),
\* v being the value the block computes from the payloads in iteration
\* order, or undefined when the block returns nothing.
C3_NormalCompletion ==
  (op = "evalIteration" /\ pc = "done" /\ FirstNonRight(block) = 0) =>
    /\ result.kind = "return"
    /\ isRight(result.val)
    /\ result.val.value = IF returns THEN Join(Payloads(block)) ELSE Undefined

C3_Witness ==
  /\ op = "evalIteration"
  /\ pc = "done"
  /\ FirstNonRight(block) = 0
  /\ Len(block) = 3
  /\ returns
  /\ isRight(result.val)

\* C4: evalIteration never raises: once the call is over its caller holds
\* a returned value, whether the block returned, iterated a Left or threw
\* any other value.
C4_NeverRaises ==
  op = "evalIteration" =>
    /\ result.kind # "throw"
    /\ pc = "done" => result.kind = "return"

C4_Witness ==
  /\ op = "evalIteration"
  /\ pc = "done"
  /\ signal.kind = "throw"
  /\ ~IsEither(signal.val)
  /\ result.kind = "return"

\* C7: an iterator of a Right yields the payload on its first next() and
\* reports done on every later call; the first next() on an iterator of a
\* Left throws the Left itself and no call ever yields a value.
C7_IterationContract ==
  op = "iterator" =>
    LET instance == its[1].instance IN
      IF isRight(instance)
        THEN \A i \in 1..Len(log) :
               IF i = 1 THEN log[i] = Event("yield", 1, Raw(instance.value))
               ELSE log[i].ev = "done"
        ELSE \A i \in 1..Len(log) :
               /\ log[i].ev # "yield"
               /\ i = 1 => log[i] = Event("throw", 1, instance)

C7_Witness ==
  /\ op = "iterator"
  /\ isRight(its[1].instance)
  /\ Len(log) >= 3
  /\ log[1].ev = "yield"
  /\ log[3].ev = "done"

\* positions of the log at which a step of the block begins: the call of
\* an awaited step, or the evaluation of a synchronous one
StepStarts == {i \in 1..Len(log) : log[i].ev \in {"start", "eval"}}

\* C5: in asyncEvalIteration the steps start in written order and never
\* overlap: step n+1 starts only after the container of step n was a Right
\* and was iterated, an awaited step is settled before any later step
\* starts, and once an awaited container is a Left no later step starts
\* and the promise resolves to that Left.
C5_AsyncSequential ==
  op = "asyncEvalIteration" =>
    /\ \A i, j \in StepStarts : i < j => log[i].k < log[j].k
    /\ \A j \in StepStarts :
         log[j].k > 1 =>
           /\ block[log[j].k - 1].kind = "Right"
           /\ \E i \in 1..(j - 1) :
                log[i] = Event("yield", log[j].k - 1,
                               Raw(block[log[j].k - 1].payload))
    /\ \A i, j \in StepStarts :
         (i < j /\ log[i].ev = "start") =>
           \E m \in (i + 1)..(j - 1) :
             log[m].ev = "settle" /\ log[m].k = log[i].k
    /\ \A m \in 1..Len(log) :
         (log[m].ev = "settle" /\ isLeft(log[m].val)) =>
           /\ \A j \in StepStarts : j < m
           /\ pc = "done" => result = [kind |-> "resolve", val |-> log[m].val]

C5_Witness ==
  /\ op = "asyncEvalIteration"
  /\ pc = "done"
  /\ Len(block) = 3
  /\ \A k \in 1..3 : block[k].awaited
  /\ block[1].kind = "Right"
  /\ block[2].kind = "Left"
  /\ isLeft(result.val)

\* C6: when an awaited step of the block of asyncEvalIteration throws or
\* rejects with a raw error, no later step of the block runs and the
\* promise of asyncEvalIteration resolves to a Left whose payload is that
\* error object.
C6_AsyncRawError ==
  (/\ op = "asyncEvalIteration"
   /\ FirstIsThrow(block)
   /\ block[FirstNonRight(block)].awaited) =>
    LET k == FirstNonRight(block) IN
      /\ \A i \in 1..Len(log) : log[i].k <= k /\ log[i].ev # "body"
      /\ pc = "done" =>
           /\ result.kind = "resolve"
           /\ isLeft(result.val)
           /\ result.val.value = block[k].payload

C6_Witness ==
  /\ op = "asyncEvalIteration"
  /\ pc = "done"
  /\ Len(block) = 3
  /\ block[1].kind = "Right"
  /\ block[1].awaited
  /\ block[2].kind = "Throw"
  /\ block[2].awaited
  /\ isLeft(result.val)

\* the step calls recorded in a pipeline log, in order
Calls(lg) == SelectSeq(lg, LAMBDA e : e.ev = "call")

\* what the calls of a pipeline log were: step and argument tuple
CallArgs(lg) == [i \in 1..Len(Calls(lg)) |-> <<Calls(lg)[i].k, Calls(lg)[i].args>>]

\* the value step k produced according to a pipeline log
ResultOf(lg, k) ==
  (CHOOSE e \in {lg[i] : i \in 1..Len(lg)} : e.ev = "result" /\ e.k = k).val

\* C8: pipeEither with steps f1..fn, n >= 1, calls the steps in index
\* order, each at most once; when fk is the first step to return a Left,
\* the call returns that Left and f(k+1)..fn are never called; when no
\* step returns a Left it returns the Right that fn returned.
C8_PipeOrder ==
  (op = "pipe" /\ Len(items) >= 1 /\ ~FirstIsThrow(items)) =>
    LET calls == Calls(pipeLog)
        k == FirstNonRight(items)
        n == Len(items)
    IN /\ \A i \in 1..Len(calls) : calls[i].k = i
       /\ Len(calls) <= IF k = 0 THEN n ELSE k
       /\ pipe.pc = "done" =>
            /\ pipeResult.kind = "return"
            /\ Len(calls) = IF k = 0 THEN n ELSE k
            /\ IF k = 0
                 THEN /\ pipeResult.val = ResultOf(pipeLog, n)
                      /\ pipeResult.val.cls = "EitherRight"
                      /\ pipeResult.val.value = items[n].payload
                 ELSE /\ pipeResult.val = ResultOf(pipeLog, k)
                      /\ pipeResult.val.cls = "EitherLeft"
                      /\ pipeResult.val.value = items[k].payload

C8_Witness ==
  /\ op = "pipe"
  /\ pipe.pc = "done"
  /\ Len(items) = 3
  /\ FirstNonRight(items) = 2
  /\ items[2].kind = "Left"
  /\ pipeResult.kind = "return"
  /\ Len(Calls(pipeLog)) = 2

\* C9: asyncPipeEither never starts step n+1 before what step n returned
\* has resolved: at most one step is in progress at any time and it is the
\* step called last; after a step resolves to a Left no later step is
\* started and the promise resolves to that Left.
C9_AsyncPipeSequential ==
  op = "pipe" =>
    LET calls == Calls(apipeLog) IN
      /\ Cardinality(inflight) <= 1
      /\ \A k \in inflight : k = Len(calls)
      /\ \A i \in 1..Len(calls) : calls[i].k = i
      /\ \A i \in 1..Len(apipeLog) :
           (apipeLog[i].ev = "result" /\ isLeft(apipeLog[i].val)) =>
             /\ \A j \in (i + 1)..Len(apipeLog) : apipeLog[j].ev # "call"
             /\ apipe.pc = "done" =>
                  apipeResult = [kind |-> "resolve", val |-> apipeLog[i].val]

C9_Witness ==
  /\ op = "pipe"
  /\ apipe.pc = "done"
  /\ Len(items) = 3
  /\ \A k \in 1..3 : items[k].promise
  /\ items[1].kind = "Right"
  /\ items[2].kind = "Left"
  /\ apipeResult.kind = "resolve"
  /\ isLeft(apipeResult.val)

\* the steps are all synchronous: none returns a Promise
AllSync(its_) == \A k \in 1..Len(its_) : ~its_[k].promise

\* C10: for a non-empty list of synchronous steps, asyncPipeEither calls
\* the same steps as pipeEither, in the same order, with the same
\* argument tuples, and resolves to the Either pipeEither returns (the
\* same variant and payload).
C10_AsyncPipeEquivalent ==
  (/\ op = "pipe"
   /\ Len(items) >= 1
   /\ AllSync(items)
   /\ pipe.pc = "done"
   /\ apipe.pc = "done") =>
    /\ CallArgs(apipeLog) = CallArgs(pipeLog)
    /\ pipeResult.kind = "return" =>
         /\ apipeResult.kind = "resolve"
         /\ apipeResult.val.cls = pipeResult.val.cls
         /\ apipeResult.val.value = pipeResult.val.value

C10_Witness ==
  /\ op = "pipe"
  /\ Len(items) = 3
  /\ AllSync(items)
  /\ pipe.pc = "done"
  /\ apipe.pc = "done"
  /\ items[1].kind = "Right"
  /\ items[2].kind = "Right"
  /\ items[3].kind = "Left"
  /\ pipeResult.kind = "return"
  /\ apipeResult.kind = "resolve"
  /\ Len(Calls(apipeLog)) = 3

\* the tuple a pipeline has accumulated is made of the payloads of the
\* first steps, all of them Right
RightPrefix(values) ==
  /\ Len(values) <= Len(items)
  /\ \A j \in 1..Len(values) :
       items[j].kind = "Right" /\ values[j] = items[j].payload

\* C11: in pipeEither and asyncPipeEither the k-th step is called with the
\* tuple of the Right payloads of steps 1..k-1, in step order (the empty
\* tuple for the first step); the payload of a Left never enters the tuple.
C11_PipeArguments ==
  op = "pipe" =>
    /\ \A i \in 1..Len(Calls(pipeLog)) :
         /\ Len(Calls(pipeLog)[i].args) = i - 1
         /\ RightPrefix(Calls(pipeLog)[i].args)
    /\ \A i \in 1..Len(Calls(apipeLog)) :
         /\ Len(Calls(apipeLog)[i].args) = i - 1
         /\ RightPrefix(Calls(apipeLog)[i].args)
    /\ RightPrefix(pipe.values)
    /\ RightPrefix(apipe.values)

C11_Witness ==
  /\ op = "pipe"
  /\ Len(items) = 3
  /\ items[3].kind = "Left"
  /\ items[2].promise
  /\ pipe.pc = "idle"
  /\ apipe.pc = "done"
  /\ Len(Calls(apipeLog)) = 3
  /\ Calls(apipeLog)[3].args = <<"a", Undefined>>

\* C12: Try(r) never raises.  When r throws e the result is a Failure
\* holding e, its toOption() is None and its get() raises e again; when r
\* returns v the result is a Success whose get() returns v.
C12_TryGuards ==
  (op = "Try" /\ subject # NoResult) =>
    /\ subject.kind = "return"
    /\ outs.m = "Try" => fcalls = <<Invoked("r", Undefined)>>
    /\ IF input.r.kind = "throw"
         THEN /\ isFailure(subject.val)
              /\ subject.val.value = input.r.val
              /\ outs.m = "Try.toOption" => outs.res = Ret(None)
              /\ outs.m = "Try.get" => outs.res = Thr(Raw(input.r.val))
         ELSE /\ isSuccess(subject.val)
              /\ outs.m = "Try.get" => outs.res = Ret(Raw(input.r.val))

C12_Witness ==
  /\ op = "Try"
  /\ input.r.kind = "throw"
  /\ isFailure(subject.val)
  /\ outs.m = "Try.get"
  /\ outs.res.kind = "throw"

\* C13: the promise of TryAsync(r) never rejects: it resolves to
\* Success(v) when the promise r returned resolves with v, and to
\* Failure(e) when r throws or its promise rejects with e.
C13_TryAsyncGuards ==
  op = "TryAsync" =>
    /\ result.kind # "reject"
    /\ pc = "done" =>
         /\ result.kind = "resolve"
         /\ result.val.value = input.r.val
         /\ result.val.cls = IF input.r.kind = "resolve" THEN "TrySuccess"
                             ELSE "TryFailure"

C13_Witness ==
  /\ op = "TryAsync"
  /\ pc = "done"
  /\ input.r.kind = "reject"
  /\ isFailure(result.val)


\* C14: for null and undefined Maybe(x) is empty and is None; for every
\* other x, the falsy false, 0 and '' included, Maybe(x) is present and
\* Maybe(x).get() returns x.
C14_MaybeNullish ==
  (op = "Option" /\ nops >= 1 /\ outs.m = "Maybe") =>
    /\ outs.res.kind = "return"
    /\ IF isNullish(outs.args.x)
         THEN isEmpty(outs.res.val) /\ outs.res.val = None
         ELSE /\ ~isEmpty(outs.res.val)
              /\ OptionGet(outs.res.val) = Ret(Raw(outs.args.x))

C14_Witness ==
  /\ op = "Option"
  /\ outs.m = "Maybe"
  /\ outs.args.x \in {"0", "false", ""}
  /\ ~isEmpty(outs.res.val)

\* the operations the Option invariant is stated for
OptionBuilders ==
  {"Maybe", "Some", "Option.map", "Option.or", "Option.filter",
   "Option.filterNot", "Option.when", "Option.unless"}

\* a present Option holds neither null nor undefined, an empty one is None
WellFormedOption(o) ==
  IF isEmpty(o) THEN o = None
  ELSE o.cls = "OptionSome" /\ ~isNullish(o.value)

\* C15: every Option built by Maybe, Some, map, or, filter, filterNot, when
\* and unless with arbitrary callbacks is either present with a payload that
\* is neither null nor undefined, or the single None instance; Some(null)
\* and Some(undefined) raise instead of building a container.
C15_OptionInvariant ==
  (op = "Option" /\ outs.m \in OptionBuilders) =>
    /\ outs.res.kind = "return" => WellFormedOption(outs.res.val)
    /\ (outs.m = "Some" /\ isNullish(outs.args.x)) => outs.res.kind = "throw"
    /\ outs.recv # NoValue => WellFormedOption(outs.recv)

C15_Witness ==
  /\ op = "Option"
  /\ nops >= 3
  /\ outs.m = "Option.map"
  /\ ~isEmpty(outs.recv)
  /\ isNullish(outs.args.fn.val.value)
  /\ outs.res = Ret(None)

\* C16: map(fn) on a present Option applies fn to the payload exactly once
\* and wraps the result through Maybe (null and undefined give None, any
\* other r a present Option of r); on an empty Option it returns None and
\* does not call fn.
C16_MapRewraps ==
  (op = "Option" /\ outs.m = "Option.map") =>
    IF isEmpty(outs.recv)
      THEN outs.res = Ret(None) /\ fcalls = <<>>
      ELSE /\ fcalls = <<Invoked("fn", outs.recv.value)>>
           /\ outs.args.fn.kind = "return" =>
                /\ outs.res.kind = "return"
                /\ IF isNullish(outs.args.fn.val.value)
                     THEN outs.res.val = None
                     ELSE /\ ~isEmpty(outs.res.val)
                          /\ outs.res.val.value = outs.args.fn.val.value

C16_Witness ==
  /\ op = "Option"
  /\ outs.m = "Option.map"
  /\ ~isEmpty(outs.recv)
  /\ outs.args.fn.kind = "return"
  /\ ~isNullish(outs.args.fn.val.value)
  /\ ~isEmpty(outs.res.val)
  /\ Len(fcalls) = 1

\* two Options are equal: both empty, or both present with the same payload
SameOption(a, b) == a.cls = b.cls /\ a.value = b.value

\* C17 as stated: for every present x and all f and g,
\* Maybe(x).map(f).map(g) equals Maybe(x).map(v => g(f(v))); for absent x
\* both are empty.
C17_MapComposition ==
  (op = "Option" /\ outs.m = "mapComposition" /\ nops = 1) =>
    IF isNullish(outs.args.x)
      THEN isEmpty(subject.val) /\ isEmpty(outs.res.val)
      ELSE SameOption(subject.val, outs.res.val)

\* C17 amended: the law holds for every present x and all f and g such that
\* f(x) is neither null nor undefined or g(f(x)) is null or undefined; when
\* f(x) is null or undefined, map(f).map(g) is empty whatever g returns; for
\* absent x both are empty.
C17_MapCompositionNonNull ==
  (op = "Option" /\ outs.m = "mapComposition" /\ nops = 1) =>
    IF isNullish(outs.args.x)
      THEN isEmpty(subject.val) /\ isEmpty(outs.res.val)
      ELSE /\ (~isNullish(outs.args.fx) \/ isNullish(outs.args.gfx)) =>
                SameOption(subject.val, outs.res.val)
           /\ isNullish(outs.args.fx) => isEmpty(subject.val)

C17_Witness ==
  /\ op = "Option"
  /\ outs.m = "mapComposition"
  /\ nops = 1
  /\ outs.args.x = "a"
  /\ outs.args.fx = "0"
  /\ outs.args.gfx = "a"
  /\ ~isEmpty(subject.val)
  /\ SameOption(subject.val, outs.res.val)


\* C18 as stated: for every v, Right(v).toOption().get() returns v; for
\* every e, Left(e).toOption() is empty.
C18_RoundTrip ==
  (op = "Either" /\ outs.m = "Either.toOption") =>
    /\ outs.res.kind = "return"
    /\ IF isRight(outs.recv)
         THEN OptionGet(outs.res.val) = Ret(Raw(outs.recv.value))
         ELSE isEmpty(outs.res.val)

\* C18 amended: for every v that is neither null nor undefined,
\* Right(v).toOption().get() returns v; for null and undefined
\* Right(v).toOption() raises the error of Some; for every e,
\* Left(e).toOption() is empty.
C18_RoundTripNonNull ==
  (op = "Either" /\ outs.m = "Either.toOption") =>
    IF isRight(outs.recv)
      THEN IF isNullish(outs.recv.value)
             THEN outs.res = Thr(Raw("Error:Some(null | undefined)"))
             ELSE /\ outs.res.kind = "return"
                  /\ OptionGet(outs.res.val) = Ret(Raw(outs.recv.value))
      ELSE outs.res.kind = "return" /\ isEmpty(outs.res.val)

C18_Witness ==
  /\ op = "Either"
  /\ outs.m = "Either.toOption"
  /\ isRight(outs.recv)
  /\ outs.recv.value = "0"
  /\ outs.res.kind = "return"
  /\ ~isEmpty(outs.res.val)

\* C19: Left(e).flatMap(f) never invokes f and returns the same Left
\* instance, still carrying e; Right(v).flatMap(f) invokes f exactly once
\* with v and returns what f returned.
C19_FlatMapShortCircuit ==
  (op = "Either" /\ outs.m = "Either.flatMap") =>
    IF isLeft(outs.recv)
      THEN /\ fcalls = <<>>
           /\ outs.res = Ret(outs.recv)
           /\ isLeft(outs.res.val)
      ELSE /\ fcalls = <<Invoked("f", outs.recv.value)>>
           /\ outs.args.f.kind = "return" => outs.res = Ret(outs.args.f.val)

C19_Witness ==
  /\ op = "Either"
  /\ outs.m = "Either.flatMap"
  /\ isLeft(outs.recv)
  /\ outs.args.f.kind = "return"
  /\ outs.res.val.id = outs.recv.id

\* the number of invocations of the callback handed over as `name`
TimesInvoked(name) == Cardinality({i \in DOMAIN fcalls : fcalls[i].fn = name})

\* the producer is invoked once when its branch is taken and never
\* otherwise; where `unmodified` is required its error is the outcome
LazyContract(name, arg, needed, unmodified) ==
  /\ TimesInvoked(name) = IF needed /\ arg.lazy THEN 1 ELSE 0
  /\ (unmodified /\ needed /\ arg.lazy /\ arg.kind = "throw") =>
        outs.res = Thr(arg.val)

\* the predicate of filterOrElse returned false
PredicateFailed(p) == p.kind = "return" /\ p.val.value # "true"

\* C20: every operation taking a lazy argument invokes a supplied producer
\* exactly once when the branch needing it is taken and never otherwise; in
\* the Option and Either operations an error of the producer propagates
\* unmodified.
C20_LazyContract ==
  /\ outs.m = "Option.getOrElse" =>
       LazyContract("alt", outs.args.alt, isEmpty(outs.recv), TRUE)
  /\ outs.m = "Option.or" =>
       LazyContract("alt", outs.args.alt, isEmpty(outs.recv), TRUE)
  /\ outs.m = "Option.orElse" =>
       LazyContract("alt", outs.args.alt, isEmpty(outs.recv), TRUE)
  /\ outs.m = "Option.toRight" =>
       LazyContract("left", outs.args.left, isEmpty(outs.recv), TRUE)
  /\ outs.m = "Option.toLeft" =>
       LazyContract("right", outs.args.right, isEmpty(outs.recv), TRUE)
  /\ outs.m = "Option.fold" =>
       LazyContract("ifEmpty", outs.args.ifEmpty, isEmpty(outs.recv), TRUE)
  /\ outs.m = "Option.when" =>
       LazyContract("a", outs.args.a, outs.args.cond, TRUE)
  /\ outs.m = "Option.unless" =>
       LazyContract("a", outs.args.a, ~outs.args.cond, TRUE)
  /\ outs.m = "Either.getOrElse" =>
       LazyContract("or", outs.args.or, isLeft(outs.recv), TRUE)
  /\ outs.m = "Either.filterOrElse" =>
       LazyContract("zero", outs.args.zero,
                    isRight(outs.recv) /\ PredicateFailed(outs.args.p), TRUE)
  /\ outs.m = "Either.cond" =>
       /\ LazyContract("right", outs.args.right, outs.args.test, TRUE)
       /\ LazyContract("left", outs.args.left, ~outs.args.test, TRUE)
  /\ outs.m = "Try.getOrElse" =>
       LazyContract("alt", outs.args.alt, isFailure(outs.recv), FALSE)
  /\ outs.m = "Try.orElse" =>
       LazyContract("alt", outs.args.alt, isFailure(outs.recv), FALSE)

C20_Witness ==
  /\ op = "Either"
  /\ outs.m = "Either.filterOrElse"
  /\ isRight(outs.recv)
  /\ outs.args.zero.lazy
  /\ outs.args.zero.kind = "throw"
  /\ TimesInvoked("zero") = 1
  /\ outs.res.kind = "throw"


\* C22: get() on an empty Option always fails with the error 'None.get'
\* and never returns a value; on a present Option it returns the payload.
C22_GetOnEmptyFails ==
  (op = "Option" /\ outs.m = "Option.get") =>
    IF isEmpty(outs.recv)
      THEN outs.res = Thr(Raw("Error:None.get"))
      ELSE outs.res = Ret(Raw(outs.recv.value))

C22_Witness ==
  /\ op = "Option"
  /\ outs.m = "Option.get"
  /\ isEmpty(outs.recv)
  /\ outs.res.kind = "throw"

\* C23: fold(fa, fb) on a Failure returns fa(error) without calling fb; on
\* a Success it calls fb(value) and, when fb throws x, returns fa(x): fold
\* on a Success raises only if fa itself raises.
C23_TryFold ==
  (op = "Try" /\ outs.m = "Try.fold") =>
    LET fa == outs.args.fa
        fb == outs.args.fb
        byFa == IF fa.kind = "throw" THEN Thr(fa.val) ELSE Ret(fa.val)
    IN  IF isFailure(outs.recv)
          THEN /\ fcalls = <<Invoked("fa", outs.recv.value)>>
               /\ outs.res = byFa
          ELSE IF fb.kind = "return"
            THEN /\ fcalls = <<Invoked("fb", outs.recv.value)>>
                 /\ outs.res = Ret(fb.val)
            ELSE /\ fcalls = <<Invoked("fb", outs.recv.value),
                               Invoked("fa", fb.val.value)>>
                 /\ outs.res = byFa
                 /\ outs.res.kind = "throw" => fa.kind = "throw"

C23_Witness ==
  /\ op = "Try"
  /\ outs.m = "Try.fold"
  /\ isSuccess(outs.recv)
  /\ outs.args.fb.kind = "throw"
  /\ outs.args.fa.kind = "return"
  /\ outs.res = Ret(outs.args.fa.val)
  /\ Len(fcalls) = 2

\* the callback threw `err` and the outcome is a Failure carrying it
FailureOf(res, err) ==
  res.kind = "return" /\ isFailure(res.val) /\ res.val.value = err.value

\* C24: Try.flatMap, Try.transform and Try.orElse never raise: what the
\* supplied function (or the lazy alternative of orElse) throws is returned
\* as a Failure carrying it; Failure.flatMap(f) returns the same Failure
\* without calling f, Success.orElse(alt) the same Success without
\* evaluating alt.
C24_TryNeverRaises ==
  /\ (op = "Try" /\ outs.m = "Try.flatMap") =>
       /\ outs.res.kind = "return"
       /\ IF isFailure(outs.recv)
            THEN fcalls = <<>> /\ outs.res = Ret(outs.recv)
            ELSE /\ fcalls = <<Invoked("f", outs.recv.value)>>
                 /\ IF outs.args.f.kind = "throw"
                      THEN FailureOf(outs.res, outs.args.f.val)
                      ELSE outs.res = Ret(outs.args.f.val)
  /\ (op = "Try" /\ outs.m = "Try.transform") =>
       LET g == IF isFailure(outs.recv) THEN outs.args.f ELSE outs.args.s
       IN  /\ outs.res.kind = "return"
           /\ Len(fcalls) = 1
           /\ IF g.kind = "throw" THEN FailureOf(outs.res, g.val)
              ELSE outs.res = Ret(g.val)
  /\ (op = "Try" /\ outs.m = "Try.orElse") =>
       /\ outs.res.kind = "return"
       /\ IF isSuccess(outs.recv)
            THEN fcalls = <<>> /\ outs.res = Ret(outs.recv)
            ELSE IF outs.args.alt.kind = "throw"
              THEN FailureOf(outs.res, outs.args.alt.val)
              ELSE outs.res = Ret(outs.args.alt.val)

C24_Witness ==
  /\ op = "Try"
  /\ outs.m = "Try.flatMap"
  /\ isSuccess(outs.recv)
  /\ outs.args.f.kind = "throw"
  /\ isFailure(outs.res.val)
  /\ outs.res.val.value = "Error:f"

\* C25: Either.toOption on Right(v) and Try.toOption on Success(v) raise
\* the error 'Some(null | undefined)' when v is null or undefined; for every
\* other v they return a present Option of v; on Left and Failure they
\* return None.
C25_ToOptionRaises ==
  (outs.m \in {"Either.toOption", "Try.toOption"}) =>
    IF isLeft(outs.recv) \/ isFailure(outs.recv)
      THEN outs.res = Ret(None)
      ELSE IF isNullish(outs.recv.value)
        THEN outs.res = Thr(Raw("Error:Some(null | undefined)"))
        ELSE /\ outs.res.kind = "return"
             /\ outs.res.val.cls = "OptionSome"
             /\ outs.res.val.value = outs.recv.value

C25_Witness ==
  /\ op = "Try"
  /\ outs.m = "Try.toOption"
  /\ isSuccess(outs.recv)
  /\ isNullish(outs.recv.value)
  /\ outs.res.kind = "throw"


\* C26: when a step of pipeEither throws, the exception reaches the caller
\* uncaught and no later step is called; when a step of asyncPipeEither
\* throws or its promise rejects, the promise of asyncPipeEither rejects
\* with that error and no later step is started; the error is never
\* converted to a Left.
C26_PipeThrowPropagates ==
  (op = "pipe" /\ FirstIsThrow(items)) =>
    LET k == FirstNonRight(items)
        err == Raw(items[k].payload)
    IN /\ \A i \in 1..Len(Calls(pipeLog)) : Calls(pipeLog)[i].k <= k
       /\ \A i \in 1..Len(Calls(apipeLog)) : Calls(apipeLog)[i].k <= k
       /\ pipe.pc = "done" => pipeResult = Thr(err)
       /\ apipe.pc = "done" => apipeResult = [kind |-> "reject", val |-> err]

C26_Witness ==
  /\ op = "pipe"
  /\ Len(items) = 3
  /\ FirstNonRight(items) = 2
  /\ items[2].kind = "Throw"
  /\ items[2].promise
  /\ apipe.pc = "done"
  /\ apipeResult.kind = "reject"
  /\ Len(Calls(apipeLog)) = 2

\* C27: called with an empty list of steps pipeEither and asyncPipeEither
\* return no Either: the first iteration calls the undefined first step and
\* the call raises a TypeError (the promise of asyncPipeEither rejects with
\* it); no step is called.
C27_EmptyPipeRaises ==
  (op = "pipe" /\ Len(items) = 0) =>
    /\ Calls(pipeLog) = <<>> /\ Calls(apipeLog) = <<>>
    /\ pipe.pc = "done" => pipeResult = Thr(TypeError)
    /\ apipe.pc = "done" => apipeResult = [kind |-> "reject", val |-> TypeError]
    /\ pipeResult.kind # "return" /\ apipeResult.kind # "resolve"

C27_Witness ==
  /\ op = "pipe"
  /\ Len(items) = 0
  /\ pipe.pc = "done"
  /\ apipe.pc = "done"
  /\ pipeResult.kind = "throw"
  /\ apipeResult.kind = "reject"


\* C29: extractLazyArg(p) returns p() for every p that is a function and p
\* itself otherwise, so a function is never handed on as a value:
\* None.getOrElse(fn) returns the result of fn(), never fn.
C29_FunctionsAreCalled ==
  (op = "Option" /\ outs.m = "Option.getOrElse" /\ isEmpty(outs.recv)) =>
    LET alt == outs.args.alt IN
      IF alt.lazy
        THEN /\ fcalls = <<Invoked("alt", Undefined)>>
             /\ outs.res = IF alt.kind = "throw" THEN Thr(alt.val) ELSE Ret(alt.val)
             /\ outs.res.val.cls # "Function"
        ELSE /\ fcalls = <<>>
             /\ outs.res = Ret(alt.val)

C29_Witness ==
  /\ op = "Option"
  /\ outs.m = "Option.getOrElse"
  /\ outs.recv = None
  /\ outs.args.alt.lazy
  /\ outs.args.alt.kind = "return"
  /\ outs.res = Ret(Raw("a"))
  /\ Len(fcalls) = 1


\* whether the i-th case of the recorded matcher call matches
CaseMatches(i) ==
  LET c == outs.args.options[i] IN
    CASE outs.m = "match" -> c.key = outs.args.value
      [] outs.m = "ifElseChain" -> c.key
      [] outs.m = "matchType" -> InstanceOf(outs.args.value, c.key)

\* the cases that match, and the first of them (0 when there is none)
MatchingCases == {i \in DOMAIN outs.args.options : CaseMatches(i)}
FirstMatching ==
  IF MatchingCases = {} THEN 0
  ELSE CHOOSE i \in MatchingCases : \A j \in MatchingCases : i <= j

\* what the handlers are invoked with
HandlerArgument == IF outs.m = "matchType" THEN outs.args.value ELSE Undefined

\* only the handler of the first matching case ran, once; none without a match
FirstCaseOnly ==
  IF FirstMatching = 0 THEN fcalls = <<>> /\ outs.res = Ret(None)
  ELSE fcalls = <<Invoked("h" \o ToString(FirstMatching), HandlerArgument)>>

\* C30 as stated: match, ifElseChain and matchType use the first matching
\* case only: its handler is invoked exactly once and its result returned in
\* Some; no other handler is invoked; without a match the result is None
\* and no handler is invoked.
C30_FirstMatch ==
  (op = "Matcher" /\ outs.m \in {"match", "ifElseChain", "matchType"}) =>
    /\ FirstCaseOnly
    /\ (FirstMatching # 0 /\ outs.args.options[FirstMatching].handler.kind = "return") =>
         /\ outs.res.kind = "return"
         /\ outs.res.val.cls = "OptionSome"
         /\ outs.res.val.value = outs.args.options[FirstMatching].handler.val.value

\* C30 amended: the handler of the first matching case is invoked exactly
\* once and no other handler is invoked; its result r is returned in Some
\* when r is neither null nor undefined, and the call raises the error of
\* Some when r is null or undefined; without a match the result is None
\* and no handler is invoked.
C30_FirstMatchNonNull ==
  (op = "Matcher" /\ outs.m \in {"match", "ifElseChain", "matchType"}) =>
    /\ FirstCaseOnly
    /\ (FirstMatching # 0 /\ outs.args.options[FirstMatching].handler.kind = "return") =>
         LET r == outs.args.options[FirstMatching].handler.val.value IN
           IF isNullish(r)
             THEN outs.res = Thr(Raw("Error:Some(null | undefined)"))
             ELSE /\ outs.res.kind = "return"
                  /\ outs.res.val.cls = "OptionSome"
                  /\ outs.res.val.value = r

C30_Witness ==
  /\ op = "Matcher"
  /\ outs.m = "matchType"
  /\ Len(outs.args.options) = 3
  /\ MatchingCases = {2, 3}
  /\ fcalls = <<Invoked("h2", outs.args.value)>>
  /\ outs.res.kind = "return"
  /\ outs.res.val.value = "r2"


\* later(fn) was called on an Option wrapping a promise that is settled
LaterSettled(state) ==
  op = "later" /\ pc = "registered" /\ promise.state = state

\* fn was called exactly once, with the empty Option
CalledWithNone == op = "later" /\ Len(fcalls) = 1 /\ fcalls[1].arg = None

\* fn was called exactly once, with a present Option of v
CalledWithSome(v) ==
  /\ op = "later"
  /\ Len(fcalls) = 1
  /\ ~isEmpty(fcalls[1].arg)
  /\ fcalls[1].arg.value = v

\* later returns normally, and on an empty Option it has called fn(None)
LaterReturns ==
  (op = "later" /\ outs.m = "Option.later") =>
    /\ outs.res = Ret(Raw(Undefined))
    /\ isEmpty(outs.recv) => fcalls = <<InvokedWith("fn", None)>>

\* C21 as stated: later(fn) on an Option wrapping a promise-like value
\* eventually calls fn with None when the promise rejects and with a
\* present Option of v when it resolves with v; on an empty Option it calls
\* fn with None; the failure of the promise never reaches the caller.
C21_LaterDelivers ==
  /\ []LaterReturns
  /\ LaterSettled("rejected") ~> CalledWithNone
  /\ \A v \in Atoms :
       (LaterSettled("fulfilled") /\ promise.val.value = v) ~> CalledWithSome(v)

\* C21 amended: when the promise resolves with v that is neither null nor
\* undefined fn is eventually called with a present Option of v; when it
\* resolves with null or undefined, or rejects, fn is eventually called
\* with None; on an empty Option fn is called with None; the failure of
\* the promise never reaches the caller.
C21_LaterDeliversNonNull ==
  /\ []LaterReturns
  /\ LaterSettled("rejected") ~> CalledWithNone
  /\ \A v \in Atoms :
       (LaterSettled("fulfilled") /\ promise.val.value = v) ~>
         (IF isNullish(v) THEN CalledWithNone ELSE CalledWithSome(v))

C21_Witness ==
  /\ op = "later"
  /\ input.kind = "promise"
  /\ promise.state = "rejected"
  /\ pc = "done"
  /\ fcalls = <<InvokedWith("onFailure", None)>>
  /\ outs.res.kind = "return"

\* C28: later(fn) on a present Option whose payload has neither subscribe
\* nor then never calls fn; when the payload is a promise fn is called
\* through exactly one of the two callbacks registered with it: at most
\* once, through the success callback after a resolution and through the
\* failure callback after a rejection.
C28_LaterCallbacks ==
  op = "later" =>
    /\ input.kind = "plain" => fcalls = <<>>
    /\ input.kind = "promise" =>
         /\ Len(fcalls) <= 1
         /\ fcalls # <<>> => promise.state \in {"fulfilled", "rejected"}
         /\ pc = "done" =>
              /\ Len(fcalls) = 1
              /\ fcalls[1].fn = IF promise.state = "fulfilled" THEN "onSuccess"
                                ELSE "onFailure"

C28_Witness ==
  /\ op = "later"
  /\ input.kind = "plain"
  /\ pc = "done"
  /\ outs.m = "Option.later"
  /\ fcalls = <<>>

====
